---- MODULE Spec2Model ----
(***************************************************************************)
(* Model of the signal pipeline of neo-trader-insight:                     *)
(*   - SignalDebouncer      (utils/signalDebouncer.ts)                     *)
(*   - SignalPersistenceManager.saveSignal (utils/signalPersistence.ts)    *)
(*   - IndexedDBService.saveSignal         (services/indexedDbService.ts)  *)
(*   - WorkerManager        (services/workerManager.ts)                    *)
(*   - TradingPairTab.handleData (components/TradingPairTab.tsx)           *)
(*   - MemoryManager.cleanup     (utils/memoryManager.ts)                  *)
(*                                                                         *)
(* Time is counted in units of 1000 ms.  Date.now() is the variable now;   *)
(* a setTimeout callback runs no earlier than its delay, possibly later    *)
(* (the event loop may be busy or the tab throttled).                      *)
(***************************************************************************)
EXTENDS Integers, Sequences, FiniteSets, TLC

\* ---------------------------------------------------------------- bounds
MaxTime == 13
MaxSaveTime == 6
MaxTimers == 3
MaxTicks == 3
MaxExportTime == 3
MaxFeed == 102
MaxSideFeed == 2
MaxGateFeed == 30

\* ------------------------------------------------------------- constants
\* SignalDebouncer.debounceTime, 2000 ms (signalDebouncer.ts, second revision)
debounceTime == 2
\* SignalDebouncer.duplicateWindow, 10000 ms (signalDebouncer.ts, second revision)
duplicateWindow == 10
\* SignalPersistenceManager.maxSignals
maxSignals == 1000
\* WorkerManager.maxWorkers
maxWorkers == 4
maxHistoryLength == 100

Symbols == {"BTCUSDT", "ETHUSDT"}
Strategies == {"scalping"}
StrategyNames == {"scalping", "intraday", "pump"}
SignalTypes == {"LONG"}

NoPending == [timestamp |-> -1, timeoutId |-> 0]
NoCallback == 0

VARIABLES
    now,              \* Date.now() / the timer clock
    pendingSignals,   \* SignalDebouncer.pendingSignals: key -> PendingSignal
    timers,           \* live setTimeout entries of the runtime
    nextTimerId,      \* next handle setTimeout returns
    lastAccepted,     \* per key, timestamp of the last accepted request
    event,            \* the last operation performed and what it returned
    isIndexedDBReady, \* SignalPersistenceManager.isIndexedDBReady
    initState,        \* progress of initializeIndexedDB
    idbSignals,       \* object store 'signals' of IndexedDB (keyPath id)
    idbInflight,      \* put requests issued and not yet completed
    lsSignals,        \* history.signals stored in localStorage
    sheetsConfig,     \* googleSheetsService.isConfigured()
    exportInflight,   \* appendSignalToSheet calls awaited by saveSignal
    lifecycleReads,   \* deactivateSignal / markSignalExecuted awaiting getSignals
    lifecycleWrites,  \* updateSignal requests issued, in the order of their transactions
    subscriptions,    \* MemoryManager.subscriptions: id -> cleanup function and timestamp
    cleanupInterval,  \* MemoryManager.cleanupInterval: 0 for null, else the handle
    starts,           \* how often start() has run
    invoked,          \* per registered cleanup function, how often it was called
    workers,          \* WorkerManager.workers
    workerIndex,      \* WorkerManager.workerIndex
    pendingTasks,     \* WorkerManager.pendingTasks: symbol -> callback
    inbox,            \* per worker, messages posted and not yet answered
    calls,            \* number of calculateIndicators calls that posted a message
    ticks,            \* per symbol, number of ticks handleData received
    isCalculating,    \* per symbol, React state isCalculating
    closure,          \* per symbol, isCalculating as captured by handleData
    applied,          \* per symbol, the callbacks invoked, with their results
    priceHistory,     \* IndicatorCalculator.priceHistory: symbol -> prices
    volumeHistory,    \* IndicatorCalculator.volumeHistory
    openInterestHistory, \* IndicatorCalculator.openInterestHistory
    cvdHistory,       \* IndicatorCalculator.cvdHistory, in thousandths
    indicatorValues,  \* per symbol, the snapshot handed to the strategies
    verdict,          \* per symbol and strategy, what the strategy last returned
    workerIndicators, \* per symbol, the indicators last computed by a worker
    replayIndicators, \* the same computation run once more on the same message
    trend,            \* the shape of the market the feed delivers
    updates           \* per symbol, number of ticks delivered by the feed

debouncerVars == <<pendingSignals, timers, nextTimerId, lastAccepted>>
lifecycleVars == <<lifecycleReads, lifecycleWrites>>
persistVars == <<isIndexedDBReady, initState, idbSignals, idbInflight, lsSignals,
                 sheetsConfig, exportInflight, lifecycleVars>>
managerVars == <<workers, workerIndex, pendingTasks, inbox, calls>>
histVars == <<priceHistory, volumeHistory, openInterestHistory, cvdHistory, indicatorValues,
              verdict, workerIndicators, replayIndicators, trend, updates>>
callerVars == <<ticks, isCalculating, closure, applied, histVars>>

memoryVars == <<subscriptions, cleanupInterval, starts, invoked>>

vars == <<now, event, debouncerVars, persistVars, managerVars, callerVars, memoryVars>>

\* ------------------------------------------------------------ the trace
Ev(op, key, timestamp, accepted, wasPending, origin, prev, outcome) ==
    [op |-> op, key |-> key, timestamp |-> timestamp, accepted |-> accepted,
     wasPending |-> wasPending, origin |-> origin, prev |-> prev, outcome |-> outcome]

Plain(op) == Ev(op, <<>>, -1, FALSE, FALSE, -1, -1, "none")

\* -------------------------------------------------------- MemoryManager
\* the ids TradingPairTab registers under: `${symbol}_ws`
SubscriptionIds == Symbols

NoSubscription == [cleanup |-> 0]

\* the manager as constructed: no subscription, no interval
MemoryEmpty ==
    /\ subscriptions = [id \in SubscriptionIds |-> NoSubscription]
    /\ cleanupInterval = 0
    /\ starts = 0
    /\ invoked = <<>>

\* the cleanup functions of the map are each called once more
CallAll(ids) ==
    LET fns == { subscriptions[id].cleanup : id \in ids } \ {0}
    IN [r \in DOMAIN invoked |-> IF r \in fns THEN invoked[r] + 1 ELSE invoked[r]]

\* ------------------------------------------------------ SignalDebouncer
getSignalKey(symbol, strategy, signal) == <<symbol, strategy, signal>>

Keys == { getSignalKey(s, st, sg) : s \in Symbols, st \in StrategyNames, sg \in SignalTypes }

IsPending(key) == pendingSignals[key] # NoPending

\* variant: the window is taken inclusively (<= instead of <)
IsDuplicateInclusive(key, timestamp) ==
    /\ IsPending(key)
    /\ timestamp - pendingSignals[key].timestamp <= duplicateWindow

\* the duplicate check of shouldProcessSignal
IsDuplicate(key, timestamp) ==
    /\ IsPending(key)
    /\ timestamp - pendingSignals[key].timestamp < duplicateWindow

\* variant: the previous timeout is not cleared
ClearNothing(key, ts) == ts

\* clearTimeout(pending.timeoutId) when a record exists
ClearExisting(key, ts) ==
    IF IsPending(key)
    THEN { t \in ts : t.id # pendingSignals[key].timeoutId }
    ELSE ts

\* setTimeout(..., this.debounceTime)
NewTimer(key) == [id |-> nextTimerId, key |-> key, fireAt |-> now + debounceTime]

\* the state change of an accepted shouldProcessSignal
Approve(key, timestamp) ==
    /\ timers' = ClearExisting(key, timers) \cup {NewTimer(key)}
    /\ nextTimerId' = nextTimerId + 1
    /\ pendingSignals' = [pendingSignals EXCEPT
                            ![key] = [timestamp |-> timestamp, timeoutId |-> nextTimerId]]
    /\ lastAccepted' = [lastAccepted EXCEPT ![key] = timestamp]

\* variant: a blocked request moves the origin of the pending record
BlockResetsOrigin(key, timestamp) ==
    /\ pendingSignals' = [pendingSignals EXCEPT ![key].timestamp = timestamp]
    /\ UNCHANGED <<timers, nextTimerId, lastAccepted>>

\* the state change of a blocked shouldProcessSignal
Block(key, timestamp) ==
    UNCHANGED <<timers, nextTimerId, pendingSignals, lastAccepted>>

shouldProcessSignal(key, timestamp) ==
    IF IsDuplicate(key, timestamp)
    THEN Block(key, timestamp)
    ELSE Approve(key, timestamp)

CallEvent(op, key, timestamp, outcome) ==
    Ev(op, key, timestamp, ~IsDuplicate(key, timestamp), IsPending(key),
       pendingSignals[key].timestamp, lastAccepted[key], outcome)

\* a direct call of signalDebouncer.shouldProcessSignal at Date.now()
ShouldProcessSignal(symbol, strategy, signal) ==
    LET key == getSignalKey(symbol, strategy, signal) IN
    /\ IsDuplicate(key, now) \/ (nextTimerId <= MaxTimers /\ now + debounceTime <= MaxTime)
    /\ shouldProcessSignal(key, now)
    /\ event' = CallEvent("shouldProcessSignal", key, now, "none")
    /\ UNCHANGED <<now, memoryVars, persistVars, managerVars, callerVars>>

\* variant: the callback empties the map
ExpireAll(t) == [k \in Keys |-> NoPending]

\* variant: the callback leaves the record in the map
ExpireKeeps(t) == pendingSignals

\* what the setTimeout callback does to the map: this.pendingSignals.delete(key)
Expire(t) == [pendingSignals EXCEPT ![t.key] = NoPending]

\* the runtime runs a due timer
TimerFire(t) ==
    /\ t \in timers
    /\ now >= t.fireAt
    /\ timers' = timers \ {t}
    /\ pendingSignals' = Expire(t)
    /\ event' = Ev("timer", t.key, t.id, FALSE, IsPending(t.key),
                   pendingSignals[t.key].timestamp, pendingSignals[t.key].timeoutId, "none")
    /\ UNCHANGED <<now, memoryVars, nextTimerId, lastAccepted, persistVars, managerVars, callerVars>>

\* variant: cleanup clears the map without clearing the timeouts
CleanupTimersLeak == timers

\* the timers SignalDebouncer.cleanup leaves alive
CleanupTimers ==
    { t \in timers : \A k \in Keys : ~(IsPending(k) /\ pendingSignals[k].timeoutId = t.id) }

\* SignalDebouncer.cleanup
DebouncerCleanup ==
    /\ timers' = CleanupTimers
    /\ pendingSignals' = [k \in Keys |-> NoPending]
    /\ UNCHANGED <<nextTimerId, lastAccepted>>

\* ------------------------------------------------------------ persistence
generateSignalId(symbol, strategy, timestamp) == <<symbol, strategy, timestamp>>

MakeSignal(symbol, strategy, signal, timestamp) ==
    [id |-> generateSignalId(symbol, strategy, timestamp), symbol |-> symbol,
     strategy |-> strategy, signal |-> signal, timestamp |-> timestamp,
     active |-> TRUE, executed |-> FALSE]

\* store.put(signal) on a store with keyPath 'id'
IdbPut(store, signal) == { r \in store : r.id # signal.id } \cup {signal}

\* variant: nothing is filtered out before the unshift
FilterSeqKeepAll(seq, symbol, strategy) == seq

FilterSeq(seq, symbol, strategy) ==
    LET Keep(h) == ~(h.symbol = symbol /\ h.strategy = strategy /\ h.active)
    IN SelectSeq(seq, Keep)

\* the localStorage branch of saveSignal: filter, unshift, slice
LocalStoragePut(signals, signal) ==
    LET kept == <<signal>> \o FilterSeq(signals, signal.symbol, signal.strategy)
    IN IF Len(kept) > maxSignals THEN SubSeq(kept, 1, maxSignals) ELSE kept

\* the end of saveSignal once the signal is stored: resolve, or await the
\* export when Google Sheets is configured
Stored(sig) == IF sheetsConfig THEN "exporting" ELSE "resolved"

Export(sig) ==
    exportInflight' = IF sheetsConfig THEN exportInflight \cup {sig} ELSE exportInflight

\* what saveSignal does after the debouncer has answered
Persist(accepted, sig, key) ==
    IF ~accepted
    THEN /\ event' = CallEvent("saveSignal", key, sig.timestamp, "skipped")
         /\ UNCHANGED <<idbSignals, idbInflight, lsSignals, exportInflight>>
    ELSE IF isIndexedDBReady
    THEN /\ idbInflight' = idbInflight \cup {sig}
         /\ event' = CallEvent("saveSignal", key, sig.timestamp, "writing")
         /\ UNCHANGED <<idbSignals, lsSignals, exportInflight>>
    ELSE \/ /\ lsSignals' = LocalStoragePut(lsSignals, sig)
            /\ event' = CallEvent("saveSignal", key, sig.timestamp, Stored(sig))
            /\ Export(sig)
            /\ UNCHANGED <<idbSignals, idbInflight>>
         \/ \* localStorage.setItem throws: caught, logged and rethrown
            /\ event' = CallEvent("saveSignal", key, sig.timestamp, "rejected")
            /\ UNCHANGED <<idbSignals, idbInflight, lsSignals, exportInflight>>

\* saveSignal(sig) up to its first await (to its end on the localStorage
\* branch)
saveSignal(sig) ==
    LET key == getSignalKey(sig.symbol, sig.strategy, sig.signal) IN
    /\ IsDuplicate(key, now) \/ (nextTimerId <= MaxTimers /\ now + debounceTime <= MaxSaveTime)
    /\ shouldProcessSignal(key, sig.timestamp)
    /\ Persist(~IsDuplicate(key, sig.timestamp), sig, key)
    /\ UNCHANGED <<now, memoryVars, isIndexedDBReady, initState, sheetsConfig, lifecycleVars, managerVars>>

\* a strategy hands a signal stamped Date.now() to saveSignal
SaveSignal(symbol, strategy, signal) ==
    /\ saveSignal(MakeSignal(symbol, strategy, signal, now))
    /\ UNCHANGED callerVars

\* request.onsuccess of IndexedDBService.saveSignal, then saveSignal goes on
\* to its end
IdbPutSuccess(sig) ==
    /\ sig \in idbInflight
    /\ idbInflight' = idbInflight \ {sig}
    /\ idbSignals' = IdbPut(idbSignals, sig)
    /\ event' = Ev("idbPut", getSignalKey(sig.symbol, sig.strategy, sig.signal),
                   sig.timestamp, FALSE, FALSE, -1, -1, Stored(sig))
    /\ Export(sig)
    /\ UNCHANGED <<now, memoryVars, debouncerVars, isIndexedDBReady, initState, lsSignals,
                   sheetsConfig, lifecycleVars, managerVars, callerVars>>

\* variant: a failed write takes the admission back
IdbPutErrorRollback(sig) ==
    LET key == getSignalKey(sig.symbol, sig.strategy, sig.signal) IN
    /\ sig \in idbInflight
    /\ idbInflight' = idbInflight \ {sig}
    /\ pendingSignals' = [pendingSignals EXCEPT ![key] = NoPending]
    /\ timers' = { t \in timers : t.key # key }
    /\ event' = Ev("idbPut", key, sig.timestamp, FALSE, FALSE, -1, -1, "rejected")
    /\ UNCHANGED <<now, memoryVars, nextTimerId, lastAccepted, isIndexedDBReady, initState, idbSignals,
                   lsSignals, sheetsConfig, lifecycleVars, exportInflight, managerVars, callerVars>>

\* request.onerror of IndexedDBService.saveSignal, then saveSignal rethrows
IdbPutError(sig) ==
    /\ sig \in idbInflight
    /\ idbInflight' = idbInflight \ {sig}
    /\ event' = Ev("idbPut", getSignalKey(sig.symbol, sig.strategy, sig.signal),
                   sig.timestamp, FALSE, FALSE, -1, -1, "rejected")
    /\ UNCHANGED <<now, memoryVars, debouncerVars, isIndexedDBReady, initState, idbSignals, lsSignals,
                   sheetsConfig, lifecycleVars, exportInflight, managerVars, callerVars>>

PutAll(store, seq) ==
    LET ids == {seq[i].id : i \in DOMAIN seq}
        last == {seq[i] : i \in {j \in DOMAIN seq :
                                   \A k \in DOMAIN seq : k > j => seq[k].id # seq[j].id}}
    IN {r \in store : r.id \notin ids} \cup last

\* initializeIndexedDB succeeds: init, migrateFromLocalStorage, ready
InitializeIndexedDBOk ==
    /\ initState = "pending"
    /\ initState' = "ready"
    /\ isIndexedDBReady' = TRUE
    /\ idbSignals' = PutAll(idbSignals, lsSignals)
    /\ event' = Plain("initOk")
    /\ UNCHANGED <<now, memoryVars, debouncerVars, idbInflight, lsSignals, sheetsConfig, lifecycleVars, exportInflight,
                   managerVars, callerVars>>

\* appendSignalToSheet resolves: the row is appended, saveSignal resolves
AppendSignalOk(sig) ==
    /\ sig \in exportInflight
    /\ exportInflight' = exportInflight \ {sig}
    /\ event' = Ev("sheetAppended", getSignalKey(sig.symbol, sig.strategy, sig.signal),
                   sig.timestamp, FALSE, FALSE, -1, -1, "resolved")
    /\ UNCHANGED <<now, memoryVars, debouncerVars, isIndexedDBReady, initState, idbSignals, idbInflight,
                   lsSignals, sheetsConfig, lifecycleVars, managerVars, callerVars>>

\* variant: the failure of the export is rethrown by saveSignal
AppendSignalFailRethrow(sig) ==
    /\ sig \in exportInflight
    /\ exportInflight' = exportInflight \ {sig}
    /\ event' = Ev("sheetFailed", getSignalKey(sig.symbol, sig.strategy, sig.signal),
                   sig.timestamp, FALSE, FALSE, -1, -1, "rejected")
    /\ UNCHANGED <<now, memoryVars, debouncerVars, isIndexedDBReady, initState, idbSignals, idbInflight,
                   lsSignals, sheetsConfig, lifecycleVars, managerVars, callerVars>>

\* appendSignalToSheet throws (token, fetch or response not ok): saveSignal
\* catches, logs and resolves
AppendSignalFail(sig) ==
    /\ sig \in exportInflight
    /\ exportInflight' = exportInflight \ {sig}
    /\ event' = Ev("sheetFailed", getSignalKey(sig.symbol, sig.strategy, sig.signal),
                   sig.timestamp, FALSE, FALSE, -1, -1, "resolved")
    /\ UNCHANGED <<now, memoryVars, debouncerVars, isIndexedDBReady, initState, idbSignals, idbInflight,
                   lsSignals, sheetsConfig, lifecycleVars, managerVars, callerVars>>

\* initializeIndexedDB fails: stays on the localStorage fallback
InitializeIndexedDBFail ==
    /\ initState = "pending"
    /\ initState' = "failed"
    /\ isIndexedDBReady' = FALSE
    /\ event' = Plain("initFail")
    /\ UNCHANGED <<now, memoryVars, debouncerVars, idbSignals, idbInflight, lsSignals,
                   sheetsConfig, lifecycleVars, exportInflight, managerVars, callerVars>>

\* --------------------------------------------------------- WorkerManager
\* variant: the index is not advanced, every message goes to one worker
calculateIndicatorsSticky(symbol, data, callback) ==
    IF Len(workers) = 0
    THEN UNCHANGED managerVars
    ELSE /\ pendingTasks' = [pendingTasks EXCEPT ![symbol] = callback]
         /\ workerIndex' = workerIndex
         /\ inbox' = [inbox EXCEPT ![workers[workerIndex + 1]] =
                         Append(@, [symbol |-> symbol, data |-> data])]
         /\ calls' = calls + 1
         /\ UNCHANGED workers

\* calculateIndicators: register the callback, pick the worker, post
calculateIndicators(symbol, data, callback) ==
    IF Len(workers) = 0
    THEN UNCHANGED managerVars
    ELSE /\ pendingTasks' = [pendingTasks EXCEPT ![symbol] = callback]
         /\ workerIndex' = (workerIndex + 1) % Len(workers)
         /\ inbox' = [inbox EXCEPT ![workers[workerIndex + 1]] =
                         Append(@, [symbol |-> symbol, data |-> data])]
         /\ calls' = calls + 1
         /\ UNCHANGED workers

\* handleData of TradingPairTab for a tick with price > 0
HandleData(symbol) ==
    LET n == ticks[symbol] + 1 IN
    /\ ticks[symbol] < MaxTicks
    /\ ticks' = [ticks EXCEPT ![symbol] = n]
    /\ IF ~closure[symbol]
       THEN /\ isCalculating' = [isCalculating EXCEPT ![symbol] = TRUE]
            /\ calculateIndicators(symbol, n, n)
       ELSE UNCHANGED <<isCalculating, managerVars>>
    /\ UNCHANGED <<now, memoryVars, event, debouncerVars, persistVars, closure, applied, histVars>>

\* React commits the render and re-runs the effect: handleData is
\* re-created over the current state and subscribed again
Rerender(symbol) ==
    /\ closure[symbol] # isCalculating[symbol]
    /\ closure' = [closure EXCEPT ![symbol] = isCalculating[symbol]]
    /\ UNCHANGED <<now, memoryVars, event, debouncerVars, persistVars, managerVars,
                   ticks, isCalculating, applied, histVars>>

\* variant: the callback stays registered after it was invoked
WorkerRespondKeeps(w) ==
    /\ inbox[w] # <<>>
    /\ LET m == Head(inbox[w])
           callback == pendingTasks[m.symbol]
       IN /\ inbox' = [inbox EXCEPT ![w] = Tail(@)]
          /\ IF callback # NoCallback
             THEN /\ applied' = [applied EXCEPT ![m.symbol] =
                                   Append(@, [callback |-> callback, data |-> m.data])]
                  /\ isCalculating' = [isCalculating EXCEPT ![m.symbol] = FALSE]
                  /\ UNCHANGED pendingTasks
             ELSE UNCHANGED <<applied, isCalculating, pendingTasks>>
    /\ UNCHANGED <<now, memoryVars, event, debouncerVars, persistVars, workers, workerIndex, calls,
                   ticks, closure, histVars>>

\* a worker answers its oldest message; worker.onmessage runs
WorkerRespond(w) ==
    /\ inbox[w] # <<>>
    /\ LET m == Head(inbox[w])
           callback == pendingTasks[m.symbol]
       IN /\ inbox' = [inbox EXCEPT ![w] = Tail(@)]
          /\ IF callback # NoCallback
             THEN /\ applied' = [applied EXCEPT ![m.symbol] =
                                   Append(@, [callback |-> callback, data |-> m.data])]
                  /\ isCalculating' = [isCalculating EXCEPT ![m.symbol] = FALSE]
                  /\ pendingTasks' = [pendingTasks EXCEPT ![m.symbol] = NoCallback]
             ELSE UNCHANGED <<applied, isCalculating, pendingTasks>>
    /\ UNCHANGED <<now, memoryVars, event, debouncerVars, persistVars, workers, workerIndex, calls,
                   ticks, closure, histVars>>

\* the computation of a worker throws on its oldest message: the catch block
\* of self.onmessage logs the error and posts nothing
WorkerFail(w) ==
    /\ inbox[w] # <<>>
    /\ inbox' = [inbox EXCEPT ![w] = Tail(@)]
    /\ UNCHANGED <<now, memoryVars, event, debouncerVars, persistVars, workers, workerIndex, calls,
                   pendingTasks, callerVars>>

\* WorkerManager.cleanup: terminate every worker, drop the callbacks
ManagerCleanup ==
    /\ workers' = <<>>
    /\ pendingTasks' = [s \in Symbols |-> NoCallback]
    /\ inbox' = [w \in 1..maxWorkers |-> <<>>]
    /\ UNCHANGED <<workerIndex, calls>>

\* --------------------------------------------------- IndicatorCalculator
\* the shapes of market the feed can deliver
Trends == {"up", "down", "flat", "zigzag", "pump", "swing", "rally"}

\* price and volume of the k-th tick of the feed; "pump" is a steady rise
\* on flat volume with three times the volume on the 30th tick, "swing" moves
\* by more than a fifth of the price on every tick, "rally" rises by 2 with a
\* dip of 3 every sixth tick and three times the volume on ticks 20 and 30
PriceAt(tr, k) ==
    CASE tr \in {"up", "pump"} -> 100 + k
      [] tr = "down" -> 300 - k
      [] tr = "flat" -> 100
      [] tr = "zigzag" -> 100 + 2 * (k % 2)
      [] tr = "swing" -> 10 + 3 * (k % 2)
      [] tr = "rally" -> 100 + 2 * k - 5 * ((k + 3) \div 6)

VolumeAt(tr, k) ==
    CASE tr = "pump" -> IF k = 30 THEN 30 ELSE 10
      [] tr = "rally" -> IF k \in {20, 30} THEN 30 ELSE 10
      [] OTHER -> 10 * (1 + (k % 3))

\* const openInterest = volume * 0.1 of handleData
OpenInterestAt(tr, k) == VolumeAt(tr, k) \div 10

\* useState<IndicatorValues | null>(null)
NoValues == [price |-> -1]

\* a strategy component not rendered yet
NoVerdict == [signal |-> "none"]

\* the maps before the first tick
HistoryEmpty ==
    /\ priceHistory = [s \in Symbols |-> <<>>]
    /\ volumeHistory = [s \in Symbols |-> <<>>]
    /\ openInterestHistory = [s \in Symbols |-> <<>>]
    /\ cvdHistory = [s \in Symbols |-> <<>>]
    /\ indicatorValues = [s \in Symbols |-> NoValues]
    /\ verdict = [s \in Symbols |-> [st \in StrategyNames |-> NoVerdict]]
    /\ workerIndicators = [s \in Symbols |-> NoValues]
    /\ replayIndicators = [s \in Symbols |-> NoValues]
    /\ updates = [s \in Symbols |-> 0]

\* variant: on overflow the newest value is dropped, not the oldest
PushCappedPop(series, value) ==
    LET pushed == Append(series, value)
    IN IF Len(pushed) > maxHistoryLength THEN SubSeq(pushed, 1, maxHistoryLength) ELSE pushed

\* push, then shift when the series is longer than maxHistoryLength
PushCapped(series, value) ==
    LET pushed == Append(series, value)
    IN IF Len(pushed) > maxHistoryLength THEN Tail(pushed) ELSE pushed

Min(a, b) == IF a < b THEN a ELSE b

Abs(a) == IF a < 0 THEN 0 - a ELSE a

\* variant: the weight is not capped
volumeWeightUncapped(previousPrice, currentPrice) ==
    1000 + (10000 * Abs(currentPrice - previousPrice)) \div previousPrice

\* volumeWeight of updateCVD, in thousandths: min(1 + priceChangePercent * 10, 3)
volumeWeight(previousPrice, currentPrice) ==
    Min(1000 + (10000 * Abs(currentPrice - previousPrice)) \div previousPrice, 3000)

\* variant: the CVD series is never shifted
updateCVDNoShift(prices, cvdValues, volume) ==
    IF Len(prices) >= 2
    THEN LET previousPrice == prices[Len(prices) - 1]
             currentPrice == prices[Len(prices)]
             weight == volumeWeight(previousPrice, currentPrice)
             volumeDelta == IF currentPrice > previousPrice THEN volume * weight
                            ELSE IF currentPrice < previousPrice THEN 0 - volume * weight
                            ELSE 0
             lastCVD == IF Len(cvdValues) > 0 THEN cvdValues[Len(cvdValues)] ELSE 0
         IN Append(cvdValues, lastCVD + volumeDelta)
    ELSE Append(cvdValues, 0)

\* updateCVD, given the price series already updated; values in thousandths
updateCVD(prices, cvdValues, volume) ==
    IF Len(prices) >= 2
    THEN LET previousPrice == prices[Len(prices) - 1]
             currentPrice == prices[Len(prices)]
             weight == volumeWeight(previousPrice, currentPrice)
             volumeDelta == IF currentPrice > previousPrice THEN volume * weight
                            ELSE IF currentPrice < previousPrice THEN 0 - volume * weight
                            ELSE 0
             lastCVD == IF Len(cvdValues) > 0 THEN cvdValues[Len(cvdValues)] ELSE 0
         IN PushCapped(cvdValues, lastCVD + volumeDelta)
    ELSE Append(cvdValues, 0)

\* IndicatorCalculator.updatePrice
updatePrice(symbol, price, volume, openInterest) ==
    LET prices == PushCapped(priceHistory[symbol], price) IN
    /\ priceHistory' = [priceHistory EXCEPT ![symbol] = prices]
    /\ volumeHistory' = [volumeHistory EXCEPT ![symbol] = PushCapped(@, volume)]
    /\ openInterestHistory' = [openInterestHistory EXCEPT ![symbol] = PushCapped(@, openInterest)]
    /\ cvdHistory' = [cvdHistory EXCEPT ![symbol] = updateCVD(prices, @, volume)]

\* sum of seq[lo..hi]
RECURSIVE SumRange(_, _, _)
SumRange(seq, lo, hi) ==
    IF lo > hi THEN 0
    ELSE IF lo = hi THEN seq[lo]
    ELSE LET mid == (lo + hi) \div 2
         IN SumRange(seq, lo, mid) + SumRange(seq, mid + 1, hi)

\* the last value of a series, or 0: values[values.length - 1] || 0
LastOr0(seq) == IF Len(seq) = 0 THEN 0 ELSE seq[Len(seq)]

\* gains and losses summed by the loop of calculateRSI over prices[lo..hi]
RECURSIVE Gains(_, _, _)
Gains(prices, lo, hi) ==
    IF lo > hi THEN 0
    ELSE IF lo = hi
    THEN LET change == prices[lo] - prices[lo - 1]
         IN IF change > 0 THEN change ELSE 0
    ELSE LET mid == (lo + hi) \div 2
         IN Gains(prices, lo, mid) + Gains(prices, mid + 1, hi)

RECURSIVE Losses(_, _, _)
Losses(prices, lo, hi) ==
    IF lo > hi THEN 0
    ELSE IF lo = hi
    THEN LET change == prices[lo] - prices[lo - 1]
         IN IF change > 0 THEN 0 ELSE Abs(change)
    ELSE LET mid == (lo + hi) \div 2
         IN Losses(prices, lo, mid) + Losses(prices, mid + 1, hi)

\* variant: one more price is needed before the RSI is computed
calculateRSILate(prices, period) ==
    IF Len(prices) < period + 2 THEN 50000
    ELSE LET gains == Gains(prices, Len(prices) - period + 1, Len(prices))
             losses == Losses(prices, Len(prices) - period + 1, Len(prices))
         IN IF losses = 0 THEN 100000
            ELSE (100000 * gains) \div (gains + losses)

\* calculateRSI, in thousandths: 100 - 100 / (1 + rs) = 100 * gains / (gains + losses)
calculateRSI(prices, period) ==
    IF Len(prices) < period + 1 THEN 50000
    ELSE LET gains == Gains(prices, Len(prices) - period + 1, Len(prices))
             losses == Losses(prices, Len(prices) - period + 1, Len(prices))
         IN IF losses = 0 THEN 100000
            ELSE (100000 * gains) \div (gains + losses)

\* the loop of calculateEMA over prices[lo..hi], in index order, starting from
\* ema; in thousandths. The loop over lo..mid is run to its value e before the
\* loop over the rest starts from e.
RECURSIVE EmaOver(_, _, _, _, _)
EmaOver(prices, period, ema, lo, hi) ==
    IF lo > hi THEN ema
    ELSE IF lo = hi THEN ema + ((prices[lo] * 1000 - ema) * 2) \div (period + 1)
    ELSE LET mid == (lo + hi) \div 2
         IN CHOOSE after \in {EmaOver(prices, period, e, mid + 1, hi) :
                                 e \in {EmaOver(prices, period, ema, lo, mid)}} : TRUE

calculateEMA(prices, period) ==
    IF Len(prices) = 0 THEN 0
    ELSE EmaOver(prices, period, prices[1] * 1000, 2, Len(prices))

\* variant: the line is computed however short the series
calculateMACDNoGuard(prices) ==
    LET macdLine == calculateEMA(prices, 12) - calculateEMA(prices, 26)
        signal == (macdLine * 8) \div 10
    IN [macd |-> macdLine - signal, signal |-> signal, line |-> macdLine]

\* variant: the signal is 1.2 of the line
calculateMACDSignalAbove(prices) ==
    IF Len(prices) < 26 THEN [macd |-> 0, signal |-> 0, line |-> 0]
    ELSE LET macdLine == calculateEMA(prices, 12) - calculateEMA(prices, 26)
             signal == (macdLine * 12) \div 10
         IN [macd |-> macdLine - signal, signal |-> signal, line |-> macdLine]

\* calculateMACD: signal is 0.8 of the line
calculateMACD(prices) ==
    IF Len(prices) < 26 THEN [macd |-> 0, signal |-> 0, line |-> 0]
    ELSE LET macdLine == calculateEMA(prices, 12) - calculateEMA(prices, 26)
             signal == (macdLine * 8) \div 10
         IN [macd |-> macdLine - signal, signal |-> signal, line |-> macdLine]

\* calculateMovingAverage, in thousandths
calculateMovingAverage(prices, period) ==
    IF Len(prices) < period THEN LastOr0(prices) * 1000
    ELSE (SumRange(prices, Len(prices) - period + 1, Len(prices)) * 1000) \div period

\* Math.sqrt on whole numbers, rounded down: the root lies in lo..hi
RECURSIVE Sqrt(_, _, _)
Sqrt(x, lo, hi) ==
    IF lo >= hi THEN lo
    ELSE LET mid == (lo + hi + 1) \div 2
         IN IF mid * mid <= x THEN Sqrt(x, mid, hi) ELSE Sqrt(x, lo, mid - 1)

\* sum of the squared distances to middle of prices[lo..hi], in thousandths
RECURSIVE SquaresRange(_, _, _, _)
SquaresRange(prices, middle, lo, hi) ==
    IF lo > hi THEN 0
    ELSE IF lo = hi THEN (prices[lo] * 1000 - middle) * (prices[lo] * 1000 - middle)
    ELSE LET mid == (lo + hi) \div 2
         IN SquaresRange(prices, middle, lo, mid) + SquaresRange(prices, middle, mid + 1, hi)

\* calculateBollingerBands, in thousandths
calculateBollingerBands(prices, period) ==
    IF Len(prices) < period
    THEN [upper |-> LastOr0(prices) * 1000, lower |-> LastOr0(prices) * 1000,
          middle |-> LastOr0(prices) * 1000]
    ELSE LET lo == Len(prices) - period + 1
             middle == (SumRange(prices, lo, Len(prices)) * 1000) \div period
             variance == SquaresRange(prices, middle, lo, Len(prices)) \div period
             stdDev == Sqrt(variance, 0, 40000)
         IN [upper |-> middle + stdDev * 2, lower |-> middle - stdDev * 2, middle |-> middle]

\* calculateVolumeSpike: the multiplier is defaultPresets.volume.multiplier
calculateVolumeSpike(volumes, lookbackPeriod) ==
    IF Len(volumes) < lookbackPeriod
    THEN [avgVolume |-> LastOr0(volumes) * 1000, volumeSpike |-> FALSE]
    ELSE LET avgVolume == (SumRange(volumes, Len(volumes) - lookbackPeriod + 1, Len(volumes))
                              * 1000) \div lookbackPeriod
         IN [avgVolume |-> avgVolume,
             volumeSpike |-> LastOr0(volumes) * 1000 > avgVolume * 2]

\* the sums of the regression of calculateCVDSlope over the last n values
RECURSIVE SumXY(_, _, _)
SumXY(cvdValues, n, i) ==
    IF i >= n THEN 0
    ELSE i * cvdValues[Len(cvdValues) - n + 1 + i] + SumXY(cvdValues, n, i + 1)

\* calculateCVDSlope: least-squares slope over lookbackPeriod + 1 values
calculateCVDSlope(cvdValues, lookbackPeriod) ==
    IF Len(cvdValues) < lookbackPeriod + 1 THEN 0
    ELSE LET n == lookbackPeriod + 1
             sumX == (n * (n - 1)) \div 2
             sumX2 == ((n - 1) * n * (2 * n - 1)) \div 6
             sumY == SumRange(cvdValues, Len(cvdValues) - n + 1, Len(cvdValues))
             sumXY == SumXY(cvdValues, n, 0)
         IN (n * sumXY - sumX * sumY) \div (n * sumX2 - sumX * sumX)

\* calculateCVDTrend: the change over the window against a tenth of its start
calculateCVDTrend(cvdValues, lookbackPeriod) ==
    IF Len(cvdValues) < lookbackPeriod THEN "neutral"
    ELSE LET firstValue == cvdValues[Len(cvdValues) - lookbackPeriod + 1]
             lastValue == cvdValues[Len(cvdValues)]
             base == IF firstValue = 0 THEN 1000 ELSE Abs(firstValue)
         IN IF (lastValue - firstValue) * 10 > base THEN "bullish"
            ELSE IF (lastValue - firstValue) * 10 < 0 - base THEN "bearish"
            ELSE "neutral"

\* getIndicatorValues: the snapshot, every number in thousandths
getIndicatorValues(prices, volumes, openInterests, cvdValues) ==
    LET bollinger == calculateBollingerBands(prices, 20)
        volumeAnalysis == calculateVolumeSpike(volumes, 20)
    IN [rsi |-> calculateRSI(prices, 14),
        macd |-> calculateMACD(prices),
        ma5 |-> calculateMovingAverage(prices, 5),
        ma8 |-> calculateMovingAverage(prices, 8),
        ma13 |-> calculateMovingAverage(prices, 13),
        ma20 |-> calculateMovingAverage(prices, 20),
        ma21 |-> calculateMovingAverage(prices, 21),
        ma34 |-> calculateMovingAverage(prices, 34),
        ma50 |-> calculateMovingAverage(prices, 50),
        bollingerUpper |-> bollinger.upper,
        bollingerLower |-> bollinger.lower,
        bollingerMiddle |-> bollinger.middle,
        volume |-> LastOr0(volumes) * 1000,
        avgVolume |-> volumeAnalysis.avgVolume,
        volumeSpike |-> volumeAnalysis.volumeSpike,
        price |-> LastOr0(prices) * 1000,
        openInterest |-> LastOr0(openInterests) * 1000,
        cvd |-> LastOr0(cvdValues),
        cvdTrend |-> calculateCVDTrend(cvdValues, 10),
        cvdSlope |-> calculateCVDSlope(cvdValues, 5)]

\* handleData for the next tick of the feed: the tick is stored and the
\* snapshot recomputed and set
UpdatePrice(symbol, bound) ==
    LET k == updates[symbol] + 1 IN
    /\ updates[symbol] < bound
    /\ updates' = [updates EXCEPT ![symbol] = k]
    /\ updatePrice(symbol, PriceAt(trend, k), VolumeAt(trend, k), OpenInterestAt(trend, k))
    /\ indicatorValues' = [indicatorValues EXCEPT ![symbol] =
            getIndicatorValues(priceHistory'[symbol], volumeHistory'[symbol],
                               openInterestHistory'[symbol], cvdHistory'[symbol])]
    /\ UNCHANGED <<now, memoryVars, event, debouncerVars, persistVars, managerVars,
                   ticks, isCalculating, closure, applied, verdict, workerIndicators,
                   replayIndicators, trend>>

\* ------------------------------------------------------ indicatorWorker
\* what Math.random() can return, in thousandths
Randoms == {0, 999}

\* the indicators self.onmessage computes from a message, given what its two
\* calls of Math.random() return; every number in thousandths
workerCalculate(priceData, volumeData, currentPrice, random1, random2) ==
    LET bollinger == calculateBollingerBands(priceData, 20)
        volumeAnalysis == calculateVolumeSpike(volumeData, 20)
        currentVolume == LastOr0(volumeData)
        cvd == currentVolume * (IF random1 > 500 THEN 1 ELSE -1) * random2 * 1000
    IN [rsi |-> calculateRSI(priceData, 14),
        macd |-> calculateMACD(priceData),
        ma5 |-> calculateMovingAverage(priceData, 5),
        ma20 |-> calculateMovingAverage(priceData, 20),
        ma50 |-> calculateMovingAverage(priceData, 50),
        bollingerUpper |-> bollinger.upper,
        bollingerLower |-> bollinger.lower,
        bollingerMiddle |-> bollinger.middle,
        volume |-> currentVolume * 1000,
        avgVolume |-> volumeAnalysis.avgVolume,
        volumeSpike |-> volumeAnalysis.volumeSpike,
        price |-> currentPrice * 1000,
        openInterest |-> currentVolume * 100,
        cvd |-> cvd,
        cvdTrend |-> IF cvd > 0 THEN "bullish" ELSE IF cvd < 0 THEN "bearish" ELSE "neutral"]

\* self.onmessage of the worker on the message built from the series of a
\* symbol, and the same message computed once more
WorkerCalculate(symbol) ==
    /\ priceHistory[symbol] # <<>>
    /\ \E random1, random2, random3, random4 \in Randoms :
          /\ workerIndicators' = [workerIndicators EXCEPT ![symbol] =
                 workerCalculate(priceHistory[symbol], volumeHistory[symbol],
                                 LastOr0(priceHistory[symbol]), random1, random2)]
          /\ replayIndicators' = [replayIndicators EXCEPT ![symbol] =
                 workerCalculate(priceHistory[symbol], volumeHistory[symbol],
                                 LastOr0(priceHistory[symbol]), random3, random4)]
    /\ UNCHANGED <<now, memoryVars, event, debouncerVars, persistVars, managerVars,
                   ticks, isCalculating, closure, applied, priceHistory, volumeHistory,
                   openInterestHistory, cvdHistory, indicatorValues, verdict, trend, updates>>

\* ------------------------------------------------------ the strategies
\* variant: some instead of every
AnyTrue(conditions) == \E c \in DOMAIN conditions : conditions[c]

\* Object.values(conditions).every(Boolean)
AllTrue(conditions) == \A c \in DOMAIN conditions : conditions[c]

\* what a strategy returns
Verdict(entryPrice, takeProfit, stopLoss, conditions) ==
    [entryPrice |-> entryPrice, takeProfit |-> takeProfit, stopLoss |-> stopLoss,
     conditions |-> conditions, allConditionsMet |-> AllTrue(conditions),
     signal |-> IF AllTrue(conditions) THEN "LONG" ELSE "WAIT"]

\* variant: the band of the RSI has no upper end
checkPumpConditionsNoCeiling(currentPrice, indicators) ==
    Verdict(currentPrice, (currentPrice * 103) \div 100, (currentPrice * 99) \div 100,
        [volume |-> indicators.volume > indicators.avgVolume * 2,
         rsi |-> indicators.rsi > 50000,
         movingAverages |-> currentPrice > indicators.ma13 /\ indicators.ma5 > indicators.ma13,
         macd |-> indicators.macd.line > indicators.macd.signal /\ indicators.macd.line > 0,
         cvd |-> indicators.cvd > 0 /\ indicators.cvdSlope > 0,
         bollinger |-> currentPrice > indicators.bollingerMiddle])

\* checkPumpConditions: +3% / -1%
checkPumpConditions(currentPrice, indicators) ==
    Verdict(currentPrice, (currentPrice * 103) \div 100, (currentPrice * 99) \div 100,
        [volume |-> indicators.volume > indicators.avgVolume * 2,
         rsi |-> indicators.rsi > 50000 /\ indicators.rsi < 85000,
         movingAverages |-> currentPrice > indicators.ma13 /\ indicators.ma5 > indicators.ma13,
         macd |-> indicators.macd.line > indicators.macd.signal /\ indicators.macd.line > 0,
         cvd |-> indicators.cvd > 0 /\ indicators.cvdSlope > 0,
         bollinger |-> currentPrice > indicators.bollingerMiddle])


\* variant: the stop of the scalping strategy is as wide as the others'
checkScalpingConditionsWideStop(currentPrice, indicators) ==
    Verdict(currentPrice, (currentPrice * 201) \div 200, (currentPrice * 99) \div 100,
        [rsi |-> indicators.rsi < 40000,
         movingAverages |-> indicators.ma8 > indicators.ma21,
         bollingerBands |-> currentPrice * 100 <= indicators.bollingerLower * 101,
         macd |-> indicators.macd.line > indicators.macd.signal,
         volume |-> indicators.volume * 10 > indicators.avgVolume * 15,
         cvd |-> indicators.cvdSlope > 0])

\* checkScalpingConditions: +0.5% / -0.25%
checkScalpingConditions(currentPrice, indicators) ==
    Verdict(currentPrice, (currentPrice * 201) \div 200, (currentPrice * 399) \div 400,
        [rsi |-> indicators.rsi < 40000,
         movingAverages |-> indicators.ma8 > indicators.ma21,
         bollingerBands |-> currentPrice * 100 <= indicators.bollingerLower * 101,
         macd |-> indicators.macd.line > indicators.macd.signal,
         volume |-> indicators.volume * 10 > indicators.avgVolume * 15,
         cvd |-> indicators.cvdSlope > 0])

\* checkIntradayConditions: +2% / -1%
checkIntradayConditions(currentPrice, indicators) ==
    Verdict(currentPrice, (currentPrice * 51) \div 50, (currentPrice * 99) \div 100,
        [bollingerBands |-> currentPrice * 100 <= indicators.bollingerLower * 101,
         macd |-> indicators.macd.line > indicators.macd.signal,
         rsi |-> indicators.rsi > 35000 /\ indicators.rsi < 65000,
         movingAverages |-> currentPrice > indicators.ma34 /\ indicators.ma20 > indicators.ma34,
         volume |-> indicators.volume * 10 > indicators.avgVolume * 12,
         cvd |-> indicators.cvd > 0 /\ indicators.cvdSlope > 0])

\* the verdict of the strategy component of that name
Evaluate(strategy, currentPrice, indicators) ==
    CASE strategy = "scalping" -> checkScalpingConditions(currentPrice, indicators)
      [] strategy = "intraday" -> checkIntradayConditions(currentPrice, indicators)
      [] strategy = "pump" -> checkPumpConditions(currentPrice, indicators)

\* the signal literal a strategy component builds when its conditions are met
StrategySignal(symbol, strategy, v, indicators, timestamp) ==
    [id |-> generateSignalId(symbol, strategy, timestamp), symbol |-> symbol,
     strategy |-> strategy, signal |-> v.signal, timestamp |-> timestamp,
     entryPrice |-> v.entryPrice, takeProfit |-> v.takeProfit, stopLoss |-> v.stopLoss,
     indicators |-> [rsi |-> indicators.rsi, macd |-> indicators.macd,
                     currentPrice |-> indicators.price, volume |-> indicators.volume,
                     cvd |-> indicators.cvd],
     conditions |-> v.conditions, active |-> TRUE, executed |-> FALSE]

\* a strategy component renders on the current snapshot: it evaluates its
\* conditions and, when all are met, saves a signal
Render(symbol, strategy) ==
    LET indicators == indicatorValues[symbol]
        v == Evaluate(strategy, indicators.price, indicators)
    IN
    /\ indicators # NoValues
    /\ verdict' = [verdict EXCEPT ![symbol][strategy] = v]
    /\ IF v.allConditionsMet
       THEN saveSignal(StrategySignal(symbol, strategy, v, indicators, now))
       ELSE /\ event' = Plain("render")
            /\ UNCHANGED <<now, memoryVars, debouncerVars, persistVars, managerVars>>
    /\ UNCHANGED <<ticks, isCalculating, closure, applied, priceHistory, volumeHistory,
                   openInterestHistory, cvdHistory, indicatorValues, workerIndicators,
                   replayIndicators, trend, updates>>

\* the snapshots the strategies are tried on, every number in thousandths
Snapshots ==
    { [rsi |-> rsi,
       macd |-> [macd |-> line - (line * 8) \div 10, signal |-> (line * 8) \div 10, line |-> line],
       ma5 |-> price - slope, ma8 |-> price - 2 * slope, ma13 |-> price - 3 * slope,
       ma20 |-> price - 4 * slope, ma21 |-> price - 5 * slope, ma34 |-> price - 6 * slope,
       ma50 |-> price - 8 * slope,
       bollingerUpper |-> price + band.middle + (band.middle - band.lower),
       bollingerLower |-> price + band.lower,
       bollingerMiddle |-> price + band.middle,
       volume |-> volume, avgVolume |-> 10000, volumeSpike |-> volume > 20000,
       price |-> price, openInterest |-> volume \div 10,
       cvd |-> flow.cvd, cvdTrend |-> "neutral", cvdSlope |-> flow.cvdSlope] :
      rsi \in {30000, 38000, 60000, 100000},
      line \in {-500, 0, 500},
      price \in {100000, 120000},
      slope \in {-1000, 1000},
      band \in {[lower |-> -500, middle |-> -200], [lower |-> -500, middle |-> 1000],
                [lower |-> -5000, middle |-> -1000], [lower |-> -5000, middle |-> 1000]},
      volume \in {10000, 13000, 30000},
      flow \in {[cvd |-> 5000, cvdSlope |-> 100], [cvd |-> -5000, cvdSlope |-> 100],
                [cvd |-> 5000, cvdSlope |-> -100]} }

\* ------------------------------------------------------------- the rest
\* MemoryManager.cleanup: every cleanup function, subscriptions.clear(),
\* clearInterval, workerManager.cleanup(), signalDebouncer.cleanup()
Cleanup ==
    /\ invoked' = CallAll(SubscriptionIds)
    /\ subscriptions' = [id \in SubscriptionIds |-> NoSubscription]
    /\ cleanupInterval' = 0
    /\ ManagerCleanup
    /\ DebouncerCleanup
    /\ event' = Plain("cleanup")
    /\ UNCHANGED <<now, starts, persistVars, callerVars>>

TickTo(bound) ==
    /\ now < bound
    /\ now' = now + 1
    /\ event' = Plain("tick")
    /\ UNCHANGED <<memoryVars, debouncerVars, persistVars, managerVars, callerVars>>

\* the passage of time
Tick == TickTo(MaxTime)

\* the passage of time while signals are saved
TickSave == TickTo(MaxSaveTime)

Init ==
    /\ now = 0
    /\ event = Plain("init")
    /\ pendingSignals = [k \in Keys |-> NoPending]
    /\ timers = {}
    /\ nextTimerId = 1
    /\ lastAccepted = [k \in Keys |-> -1]
    /\ isIndexedDBReady = FALSE
    /\ initState = "pending"
    /\ idbSignals = {}
    /\ idbInflight = {}
    /\ lsSignals = <<>>
    /\ sheetsConfig = FALSE
    /\ exportInflight = {}
    /\ lifecycleReads = {}
    /\ lifecycleWrites = <<>>
    /\ MemoryEmpty
    /\ workers = [i \in 1..maxWorkers |-> i]
    /\ workerIndex = 0
    /\ pendingTasks = [s \in Symbols |-> NoCallback]
    /\ inbox = [w \in 1..maxWorkers |-> <<>>]
    /\ calls = 0
    /\ ticks = [s \in Symbols |-> 0]
    /\ isCalculating = [s \in Symbols |-> FALSE]
    /\ closure = [s \in Symbols |-> FALSE]
    /\ applied = [s \in Symbols |-> <<>>]
    /\ HistoryEmpty
    /\ trend = "up"

\* saving signals: debouncer, persistence, timers
Next ==
    \/ \E s \in Symbols, st \in Strategies, sg \in SignalTypes : SaveSignal(s, st, sg)
    \/ \E t \in timers : TimerFire(t)
    \/ \E sig \in idbInflight : IdbPutSuccess(sig)
    \/ \E sig \in idbInflight : IdbPutError(sig)
    \/ InitializeIndexedDBOk
    \/ InitializeIndexedDBFail
    \/ TickSave
    \/ Cleanup

Spec == Init /\ [][Next]_vars

\* saving signals while the application stays mounted (no teardown)
RunNext ==
    \/ \E s \in Symbols, st \in Strategies, sg \in SignalTypes : SaveSignal(s, st, sg)
    \/ \E t \in timers : TimerFire(t)
    \/ \E sig \in idbInflight : IdbPutSuccess(sig)
    \/ \E sig \in idbInflight : IdbPutError(sig)
    \/ InitializeIndexedDBOk
    \/ InitializeIndexedDBFail
    \/ TickSave

RunSpec == Init /\ [][RunNext]_vars

\* a record kept from an earlier session: executed, no longer active
OldSignal(i) ==
    [id |-> generateSignalId("BTCUSDT", "scalping", 0 - i), symbol |-> "BTCUSDT",
     strategy |-> "scalping", signal |-> "LONG", timestamp |-> 0 - i,
     active |-> FALSE, executed |-> TRUE]

\* a session that starts on a localStorage history of maxSignals - 1 or
\* maxSignals records, newest first
CapInit ==
    /\ now = 0
    /\ event = Plain("init")
    /\ pendingSignals = [k \in Keys |-> NoPending]
    /\ timers = {}
    /\ nextTimerId = 1
    /\ lastAccepted = [k \in Keys |-> -1]
    /\ isIndexedDBReady = FALSE
    /\ initState = "pending"
    /\ idbSignals = {}
    /\ idbInflight = {}
    /\ \E n \in {maxSignals - 1, maxSignals} : lsSignals = [i \in 1..n |-> OldSignal(i)]
    /\ sheetsConfig = FALSE
    /\ exportInflight = {}
    /\ lifecycleReads = {}
    /\ lifecycleWrites = <<>>
    /\ MemoryEmpty
    /\ workers = [i \in 1..maxWorkers |-> i]
    /\ workerIndex = 0
    /\ pendingTasks = [s \in Symbols |-> NoCallback]
    /\ inbox = [w \in 1..maxWorkers |-> <<>>]
    /\ calls = 0
    /\ ticks = [s \in Symbols |-> 0]
    /\ isCalculating = [s \in Symbols |-> FALSE]
    /\ closure = [s \in Symbols |-> FALSE]
    /\ applied = [s \in Symbols |-> <<>>]
    /\ HistoryEmpty
    /\ trend = "up"

\* saving signals at one instant on a full history
CapNext ==
    \/ \E s \in Symbols, st \in Strategies, sg \in SignalTypes : SaveSignal(s, st, sg)
    \/ \E sig \in idbInflight : IdbPutSuccess(sig)
    \/ \E sig \in idbInflight : IdbPutError(sig)
    \/ InitializeIndexedDBOk
    \/ InitializeIndexedDBFail

CapSpec == CapInit /\ [][CapNext]_vars

\* a session with Google Sheets configured
ExportInit ==
    /\ now = 0
    /\ event = Plain("init")
    /\ pendingSignals = [k \in Keys |-> NoPending]
    /\ timers = {}
    /\ nextTimerId = 1
    /\ lastAccepted = [k \in Keys |-> -1]
    /\ isIndexedDBReady = FALSE
    /\ initState = "pending"
    /\ idbSignals = {}
    /\ idbInflight = {}
    /\ lsSignals = <<>>
    /\ sheetsConfig = TRUE
    /\ exportInflight = {}
    /\ lifecycleReads = {}
    /\ lifecycleWrites = <<>>
    /\ MemoryEmpty
    /\ workers = [i \in 1..maxWorkers |-> i]
    /\ workerIndex = 0
    /\ pendingTasks = [s \in Symbols |-> NoCallback]
    /\ inbox = [w \in 1..maxWorkers |-> <<>>]
    /\ calls = 0
    /\ ticks = [s \in Symbols |-> 0]
    /\ isCalculating = [s \in Symbols |-> FALSE]
    /\ closure = [s \in Symbols |-> FALSE]
    /\ applied = [s \in Symbols |-> <<>>]
    /\ HistoryEmpty
    /\ trend = "up"

\* the passage of time while signals are saved and exported
TickExport == TickTo(MaxExportTime)

\* saving signals with the export to Google Sheets
ExportNext ==
    \/ \E s \in Symbols, st \in Strategies, sg \in SignalTypes : SaveSignal(s, st, sg)
    \/ \E t \in timers : TimerFire(t)
    \/ \E sig \in idbInflight : IdbPutSuccess(sig)
    \/ \E sig \in idbInflight : IdbPutError(sig)
    \/ \E sig \in exportInflight : AppendSignalOk(sig)
    \/ \E sig \in exportInflight : AppendSignalFail(sig)
    \/ InitializeIndexedDBOk
    \/ InitializeIndexedDBFail
    \/ TickExport

ExportSpec == ExportInit /\ [][ExportNext]_vars

\* a feed of any shape into an empty History Store
HistoryInit ==
    /\ now = 0
    /\ event = Plain("init")
    /\ pendingSignals = [k \in Keys |-> NoPending]
    /\ timers = {}
    /\ nextTimerId = 1
    /\ lastAccepted = [k \in Keys |-> -1]
    /\ isIndexedDBReady = FALSE
    /\ initState = "pending"
    /\ idbSignals = {}
    /\ idbInflight = {}
    /\ lsSignals = <<>>
    /\ sheetsConfig = FALSE
    /\ exportInflight = {}
    /\ lifecycleReads = {}
    /\ lifecycleWrites = <<>>
    /\ MemoryEmpty
    /\ workers = [i \in 1..maxWorkers |-> i]
    /\ workerIndex = 0
    /\ pendingTasks = [s \in Symbols |-> NoCallback]
    /\ inbox = [w \in 1..maxWorkers |-> <<>>]
    /\ calls = 0
    /\ ticks = [s \in Symbols |-> 0]
    /\ isCalculating = [s \in Symbols |-> FALSE]
    /\ closure = [s \in Symbols |-> FALSE]
    /\ applied = [s \in Symbols |-> <<>>]
    /\ HistoryEmpty
    /\ trend \in Trends

\* ticks of the feed: a long run for one symbol beside a short one
HistoryNext ==
    \/ UpdatePrice("BTCUSDT", MaxFeed)
    \/ UpdatePrice("ETHUSDT", MaxSideFeed)

HistorySpec == HistoryInit /\ [][HistoryNext]_vars

\* the strategy components of one symbol on any of the snapshots
StrategyInit ==
    /\ now = 0
    /\ event = Plain("init")
    /\ pendingSignals = [k \in Keys |-> NoPending]
    /\ timers = {}
    /\ nextTimerId = 1
    /\ lastAccepted = [k \in Keys |-> -1]
    /\ isIndexedDBReady = FALSE
    /\ initState = "pending"
    /\ idbSignals = {}
    /\ idbInflight = {}
    /\ lsSignals = <<>>
    /\ sheetsConfig = FALSE
    /\ exportInflight = {}
    /\ lifecycleReads = {}
    /\ lifecycleWrites = <<>>
    /\ MemoryEmpty
    /\ workers = [i \in 1..maxWorkers |-> i]
    /\ workerIndex = 0
    /\ pendingTasks = [s \in Symbols |-> NoCallback]
    /\ inbox = [w \in 1..maxWorkers |-> <<>>]
    /\ calls = 0
    /\ ticks = [s \in Symbols |-> 0]
    /\ isCalculating = [s \in Symbols |-> FALSE]
    /\ closure = [s \in Symbols |-> FALSE]
    /\ applied = [s \in Symbols |-> <<>>]
    /\ priceHistory = [s \in Symbols |-> <<>>]
    /\ volumeHistory = [s \in Symbols |-> <<>>]
    /\ openInterestHistory = [s \in Symbols |-> <<>>]
    /\ cvdHistory = [s \in Symbols |-> <<>>]
    /\ \E snapshot \in Snapshots :
          indicatorValues = [s \in Symbols |-> IF s = "BTCUSDT" THEN snapshot ELSE NoValues]
    /\ verdict = [s \in Symbols |-> [st \in StrategyNames |-> NoVerdict]]
    /\ workerIndicators = [s \in Symbols |-> NoValues]
    /\ replayIndicators = [s \in Symbols |-> NoValues]
    /\ updates = [s \in Symbols |-> 0]
    /\ trend = "up"

StrategyNext ==
    \/ \E s \in Symbols, st \in StrategyNames : Render(s, st)
    \/ \E sig \in idbInflight : IdbPutSuccess(sig)
    \/ \E sig \in idbInflight : IdbPutError(sig)
    \/ InitializeIndexedDBOk
    \/ InitializeIndexedDBFail

StrategySpec == StrategyInit /\ [][StrategyNext]_vars

\* the strategy component has rendered the current snapshot of the symbol
Rendered(symbol, strategy) ==
    /\ indicatorValues[symbol] # NoValues
    /\ verdict[symbol][strategy] =
           Evaluate(strategy, indicatorValues[symbol].price, indicatorValues[symbol])

\* the next message of the socket is handled once React has committed the
\* render that followed setIndicatorValues
NextMessage(symbol, bound) ==
    /\ indicatorValues[symbol] # NoValues => \A st \in StrategyNames : Rendered(symbol, st)
    /\ UpdatePrice(symbol, bound)

\* the strategy component renders the snapshot it has not rendered yet
RenderNew(symbol, strategy) ==
    /\ ~Rendered(symbol, strategy)
    /\ Render(symbol, strategy)

\* the feed, the strategies on every snapshot, and the signals they save
GateNext ==
    \/ NextMessage("BTCUSDT", MaxGateFeed)
    \/ NextMessage("ETHUSDT", MaxSideFeed)
    \/ \E s \in Symbols, st \in StrategyNames : RenderNew(s, st)
    \/ \E sig \in idbInflight : IdbPutSuccess(sig)
    \/ \E sig \in idbInflight : IdbPutError(sig)
    \/ InitializeIndexedDBOk
    \/ InitializeIndexedDBFail

GateSpec == HistoryInit /\ [][GateNext]_vars

\* short feeds computed on both paths: in process and by a worker
CvdNext ==
    \/ \E s \in Symbols : UpdatePrice(s, MaxSideFeed)
    \/ \E s \in Symbols : WorkerCalculate(s)

CvdSpec == HistoryInit /\ [][CvdNext]_vars

\* the debouncer on its own
DebouncerNext ==
    \/ \E s \in Symbols, st \in Strategies, sg \in SignalTypes : ShouldProcessSignal(s, st, sg)
    \/ \E t \in timers : TimerFire(t)
    \/ Tick
    \/ Cleanup

DebouncerSpec == Init /\ [][DebouncerNext]_vars

\* the event loop runs due timers, and time passes
DebouncerLiveSpec ==
    /\ DebouncerSpec
    /\ WF_vars(Tick)
    /\ WF_vars(\E t \in timers : TimerFire(t))

\* the dispatcher and its caller
DispatchNext ==
    \/ \E s \in Symbols : HandleData(s)
    \/ \E s \in Symbols : Rerender(s)
    \/ \E w \in 1..maxWorkers : WorkerRespond(w)
    \/ \E w \in 1..maxWorkers : WorkerFail(w)
    \/ Cleanup

DispatchSpec == Init /\ [][DispatchNext]_vars

\* a pool in which only some of the maxWorkers workers could be created
PoolInit ==
    /\ now = 0
    /\ event = Plain("init")
    /\ pendingSignals = [k \in Keys |-> NoPending]
    /\ timers = {}
    /\ nextTimerId = 1
    /\ lastAccepted = [k \in Keys |-> -1]
    /\ isIndexedDBReady = FALSE
    /\ initState = "pending"
    /\ idbSignals = {}
    /\ idbInflight = {}
    /\ lsSignals = <<>>
    /\ sheetsConfig = FALSE
    /\ exportInflight = {}
    /\ lifecycleReads = {}
    /\ lifecycleWrites = <<>>
    /\ MemoryEmpty
    /\ \E n \in 0..maxWorkers : workers = [i \in 1..n |-> i]
    /\ workerIndex = 0
    /\ pendingTasks = [s \in Symbols |-> NoCallback]
    /\ inbox = [w \in 1..maxWorkers |-> <<>>]
    /\ calls = 0
    /\ ticks = [s \in Symbols |-> 0]
    /\ isCalculating = [s \in Symbols |-> FALSE]
    /\ closure = [s \in Symbols |-> FALSE]
    /\ applied = [s \in Symbols |-> <<>>]
    /\ HistoryEmpty
    /\ trend = "up"

PoolSpec == PoolInit /\ [][DispatchNext]_vars

\* the dispatcher and its caller when no computation throws
NoFailNext ==
    \/ \E s \in Symbols : HandleData(s)
    \/ \E s \in Symbols : Rerender(s)
    \/ \E w \in 1..maxWorkers : WorkerRespond(w)
    \/ Cleanup

NoFailSpec == Init /\ [][NoFailNext]_vars

\* ------------------------------------------------------------ properties
IsCall == event.op \in {"shouldProcessSignal", "saveSignal"}

\* C1: a request for a pending key is rejected exactly when its timestamp is
\* less than duplicateWindow after the original acceptance of the key, and
\* the origin held by the pending record is that original acceptance, however
\* many rejected requests came in between.
C1_WindowFromOrigin ==
    (IsCall /\ event.wasPending) =>
        /\ event.origin = event.prev
        /\ event.accepted <=> (event.timestamp - event.prev >= duplicateWindow)

C1_Witness ==
    /\ event.op = "shouldProcessSignal"
    /\ event.wasPending
    /\ event.accepted
    /\ event.timestamp - event.prev >= duplicateWindow

SameKey(r1, r2) ==
    r1.symbol = r2.symbol /\ r1.strategy = r2.strategy /\ r1.signal = r2.signal

Near(r1, r2) == r1.timestamp - r2.timestamp < 5 /\ r2.timestamp - r1.timestamp < 5

\* C2: two saveSignal calls for one key less than 5 s apart, under the 10 s
\* duplicate window, leave exactly one persisted TradingSignal, on the
\* IndexedDB store and on the localStorage list.
C2_OnePersisted ==
    /\ \A r1, r2 \in idbSignals : (SameKey(r1, r2) /\ Near(r1, r2)) => r1 = r2
    /\ \A i, j \in 1..Len(lsSignals) :
          (SameKey(lsSignals[i], lsSignals[j]) /\ Near(lsSignals[i], lsSignals[j])) => i = j

\* C3: a pending key returns to absent once its timer has run, rejected
\* duplicates notwithstanding, and a request for an absent key is accepted
\* whatever the time since the last acceptance.
C3_DebounceExpiry ==
    /\ \A k \in Keys : IsPending(k) ~> ~IsPending(k)
    /\ [](IsCall /\ ~event.wasPending => event.accepted)

C3_Witness ==
    /\ event.op = "shouldProcessSignal"
    /\ ~event.wasPending
    /\ event.accepted
    /\ event.prev >= 0
    /\ event.timestamp - event.prev < duplicateWindow

\* C4: a rejected request leaves the pending records (origin, timer handle)
\* and the live timers (firing times) as they were.
C4_RejectChangesNothing ==
    [][ (event'.op = "shouldProcessSignal" /\ ~event'.accepted) =>
            (pendingSignals' = pendingSignals /\ timers' = timers) ]_vars

C4_Witness ==
    /\ event.op = "shouldProcessSignal"
    /\ ~event.accepted
    /\ event.timestamp > event.origin
    /\ pendingSignals[event.key].timestamp = event.origin

\* C5: an acceptance for a pending key cancels the old timer, sets the origin
\* to the new timestamp and starts a fresh timer due one debounce interval
\* later; a timer that runs is the one of the current record and runs no
\* earlier than one debounce interval after that record's acceptance; short
\* of cleanup, a key becomes absent only that way.
C5_Replacement ==
    [][ /\ (event'.op = "shouldProcessSignal" /\ event'.accepted /\ event'.wasPending) =>
            LET k == event'.key IN
            /\ \A t \in timers' : t.id # pendingSignals[k].timeoutId
            /\ pendingSignals'[k].timestamp = event'.timestamp
            /\ \E t \in timers' :
                  /\ t.id = pendingSignals'[k].timeoutId
                  /\ t.key = k
                  /\ t.fireAt = now + debounceTime
                  /\ \A u \in timers : u.id # t.id
            /\ \A t, u \in timers' : (t.key = k /\ u.key = k) => t = u
        /\ (event'.op = "timer") =>
            /\ event'.wasPending
            /\ event'.prev = event'.timestamp
            /\ now >= event'.origin + debounceTime
        /\ \A k \in Keys : (IsPending(k) /\ pendingSignals'[k] = NoPending) =>
            \/ event'.op = "cleanup"
            \/ event'.op = "timer" /\ event'.key = k
                  /\ now >= pendingSignals[k].timestamp + debounceTime ]_vars

C5_Witness ==
    /\ event.op = "shouldProcessSignal"
    /\ event.accepted /\ event.wasPending
    /\ pendingSignals[event.key].timestamp = now
    /\ Cardinality({ t \in timers : t.key = event.key }) = 1

\* C6: live timers and pending records correspond one to one, each record
\* holding the handle of its own timer; cleanup leaves neither; a timer that
\* runs belongs to the record of its key.
C6_NoLeakedTimers ==
    /\ \A t \in timers : IsPending(t.key) /\ pendingSignals[t.key].timeoutId = t.id
    /\ \A k \in Keys : IsPending(k) =>
          \E t \in timers : t.id = pendingSignals[k].timeoutId /\ t.key = k
    /\ \A t, u \in timers : (t.id = u.id \/ t.key = u.key) => t = u
    /\ event.op = "cleanup" => (timers = {} /\ \A k \in Keys : ~IsPending(k))
    /\ event.op = "timer" => (event.wasPending /\ event.prev = event.timestamp)

C6_Witness ==
    /\ Cardinality(timers) = 2
    /\ \E t \in timers : t.id = MaxTimers

\* C7: a failed write is reported by saveSignal and leaves the debouncer as
\* the admission left it; a retry inside the duplicate window is skipped and
\* attempts no write.
C7_PersistenceIndependent ==
    [][ /\ (event'.op = "idbPut" /\ event'.outcome = "rejected") =>
              UNCHANGED <<pendingSignals, timers, idbSignals, lsSignals>>
        /\ (event'.op = "saveSignal" /\ event'.outcome = "rejected") =>
              /\ event'.accepted
              /\ pendingSignals'[event'.key].timestamp = event'.timestamp
              /\ UNCHANGED <<idbSignals, idbInflight, lsSignals>>
        /\ (event'.op = "saveSignal" /\ event'.wasPending
              /\ event'.timestamp - event'.origin < duplicateWindow) =>
              /\ event'.outcome = "skipped"
              /\ UNCHANGED <<pendingSignals, timers, idbSignals, idbInflight, lsSignals>>
      ]_vars

C7_Witness ==
    /\ event.op = "saveSignal"
    /\ event.outcome = "skipped"
    /\ idbSignals = {} /\ idbInflight = {} /\ lsSignals = <<>>
    /\ IsPending(event.key)

Outstanding(symbol) ==
    LET Count(w) == Cardinality({ i \in 1..Len(inbox[w]) : inbox[w][i].symbol = symbol })
    IN Count(1) + Count(2) + Count(3) + Count(4)

\* C8: for every instrument at most one CALCULATE_INDICATORS message is
\* posted and not yet answered.
C8_OneOutstanding == \A s \in Symbols : Outstanding(s) <= 1

\* C9: a callback is invoked with the result computed from the data of its
\* own request (the latest request's callback with the latest request's data).
C9_LatestWins ==
    \A s \in Symbols : \A i \in 1..Len(applied[s]) :
        applied[s][i].callback = applied[s][i].data

\* C10: per instrument, results are applied in the order their ticks were
\* dispatched: no result of an older tick after a result of a newer one.
C10_Fifo ==
    \A s \in Symbols : \A i, j \in 1..Len(applied[s]) :
        i < j => applied[s][i].data <= applied[s][j].data

\* C11: a computation failure costs one tick of one instrument: while the
\* pool is alive, an instrument in the calculating state has a computation
\* outstanding and a callback registered, so that a later answer releases it
\* and later ticks are dispatched again.
C11_FailureScoped ==
    \A s \in Symbols :
        (isCalculating[s] /\ Len(workers) > 0) =>
            (Outstanding(s) > 0 /\ pendingTasks[s] # NoCallback)

\* C12: on either backend the store holds at most maxSignals records.
C12_Cap ==
    /\ Cardinality(idbSignals) <= maxSignals
    /\ Len(lsSignals) <= maxSignals

\* the records of the localStorage list
LsRecords(signals) == { signals[i] : i \in DOMAIN signals }

\* C13: a step of saveSignal leaves every record persisted under another id
\* present and unchanged on both backends, short of the eviction done by the
\* cap on a full store.
C13_SaveFrame ==
    [][ (event'.op \in {"saveSignal", "idbPut"}) =>
            LET id == generateSignalId(event'.key[1], event'.key[2], event'.timestamp) IN
            /\ \A r \in idbSignals : r.id # id => r \in idbSignals'
            /\ \A r \in LsRecords(lsSignals) :
                  r.id # id => (r \in LsRecords(lsSignals') \/ Len(lsSignals') >= maxSignals)
      ]_vars

\* the signal a step of saveSignal is about
EventSignal(e) == MakeSignal(e.key[1], e.key[2], e.key[3], e.timestamp)

\* a later signal of the same symbol and strategy has taken the place of sig
\* on the localStorage list
Replaced(sig, signals) ==
    \E r \in LsRecords(signals) :
        r.symbol = sig.symbol /\ r.strategy = sig.strategy /\ r.timestamp > sig.timestamp

\* C14: when appendSignalToSheet fails, saveSignal still resolves, the stores
\* and the debouncer are left as they were (as after an export that
\* succeeded), the signal is still in the store it was written to, and the
\* export is not attempted again: an export starts only as saveSignal stores
\* a signal.
C14_ExportIsolated ==
    [][ /\ (event'.op = "sheetFailed") =>
              /\ event'.outcome = "resolved"
              /\ UNCHANGED <<idbSignals, idbInflight, lsSignals, debouncerVars>>
              /\ exportInflight' = exportInflight \ {EventSignal(event')}
              /\ \/ EventSignal(event') \in idbSignals'
                 \/ EventSignal(event') \in LsRecords(lsSignals')
                 \/ Replaced(EventSignal(event'), lsSignals')
        /\ (event'.op = "sheetAppended") =>
              UNCHANGED <<idbSignals, idbInflight, lsSignals, debouncerVars>>
        /\ ~(exportInflight' \subseteq exportInflight) =>
              /\ event'.op \in {"saveSignal", "idbPut"}
              /\ event'.outcome = "exporting"
              /\ exportInflight' = exportInflight \cup {EventSignal(event')}
      ]_vars

C14_Witness ==
    /\ event.op = "sheetFailed"
    /\ event.outcome = "resolved"
    /\ EventSignal(event) \in idbSignals
    /\ IsPending(event.key)
    /\ EventSignal(event) \notin exportInflight

\* C15 as stated: the pool holds at most maxWorkers workers and workerIndex
\* is in 0..workers.length-1 in every state.
C15_IndexInRange ==
    /\ Len(workers) <= maxWorkers
    /\ workerIndex \in 0..(Len(workers) - 1)

\* C15, amended: the pool holds at most maxWorkers workers; while the pool is
\* not empty workerIndex is in 0..workers.length-1; and the call that posts
\* after k earlier ones posts its message to worker k mod workers.length and
\* to no other, whatever its instrument.
C15_RoundRobin ==
    /\ [](Len(workers) <= maxWorkers)
    /\ [](Len(workers) > 0 => workerIndex \in 0..(Len(workers) - 1))
    /\ [][ calls' # calls =>
             /\ calls' = calls + 1
             /\ Len(workers) > 0
             /\ LET target == workers[(calls % Len(workers)) + 1] IN
                /\ Len(inbox'[target]) = Len(inbox[target]) + 1
                /\ \A w \in 1..maxWorkers : w # target => inbox'[w] = inbox[w]
         ]_vars

C15_Witness ==
    /\ Len(workers) = 2
    /\ calls = 3
    /\ workerIndex = 1
    /\ \E s \in Symbols : ticks[s] = 0

\* the last Min(n, maxHistoryLength) of the first n values of a feed
Recent(At(_, _), n) ==
    LET m == Min(n, maxHistoryLength) IN [i \in 1..m |-> At(trend, n - m + i)]

\* C16: after n updatePrice calls for an instrument each of the price, volume
\* and open-interest series has length min(n, 100) and holds exactly the most
\* recent values in arrival order.
C16_HistoryFifo ==
    \A s \in Symbols :
        /\ priceHistory[s] = Recent(PriceAt, updates[s])
        /\ volumeHistory[s] = Recent(VolumeAt, updates[s])
        /\ openInterestHistory[s] = Recent(OpenInterestAt, updates[s])
        /\ Len(priceHistory[s]) = Min(updates[s], maxHistoryLength)

C16_Witness ==
    /\ trend = "up"
    /\ updates["BTCUSDT"] = maxHistoryLength + 2
    /\ Len(priceHistory["BTCUSDT"]) = maxHistoryLength
    /\ priceHistory["BTCUSDT"][1] = PriceAt(trend, 3)
    /\ Len(volumeHistory["BTCUSDT"]) = maxHistoryLength
    /\ Len(openInterestHistory["BTCUSDT"]) = maxHistoryLength

\* the verdict of the pump strategy on the snapshot of BTCUSDT
PumpVerdict == checkPumpConditions(indicatorValues["BTCUSDT"].price, indicatorValues["BTCUSDT"])

\* the feed of C17 has delivered its 30 ticks to BTCUSDT
PumpFed == trend = "pump" /\ updates["BTCUSDT"] = 30

\* C17 as stated: after 30 ticks of strictly rising price, the last with
\* three times the flat volume, the pump strategy admits LONG with the last
\* price as entryPrice and 1.03 times it as takeProfit.
C17_PumpAdmits ==
    PumpFed =>
        /\ PumpVerdict.allConditionsMet
        /\ PumpVerdict.signal = "LONG"
        /\ PumpVerdict.entryPrice = PriceAt(trend, 30) * 1000
        /\ PumpVerdict.takeProfit * 100 = PumpVerdict.entryPrice * 103

\* C17, amended: on that feed the RSI is 100, outside the band of the pump
\* strategy, which is its only condition that fails; the strategy returns
\* WAIT, with the last price as entryPrice and 1.03 times it as takeProfit.
C17_PumpWaits ==
    PumpFed =>
        /\ indicatorValues["BTCUSDT"].rsi = 100000
        /\ PumpVerdict.conditions = [volume |-> TRUE, rsi |-> FALSE, movingAverages |-> TRUE,
                                     macd |-> TRUE, cvd |-> TRUE, bollinger |-> TRUE]
        /\ ~PumpVerdict.allConditionsMet
        /\ PumpVerdict.signal = "WAIT"
        /\ PumpVerdict.entryPrice = PriceAt(trend, 30) * 1000
        /\ PumpVerdict.takeProfit * 100 = PumpVerdict.entryPrice * 103

C17_Witness ==
    /\ PumpFed
    /\ Len(priceHistory["BTCUSDT"]) = 30
    /\ \A i \in 2..30 : priceHistory["BTCUSDT"][i] > priceHistory["BTCUSDT"][i - 1]
    /\ volumeHistory["BTCUSDT"][30] * 20 >= 3 * SumRange(volumeHistory["BTCUSDT"], 10, 29)
    /\ indicatorValues["BTCUSDT"].price = priceHistory["BTCUSDT"][30] * 1000

\* the names of the conditions each strategy reports
ConditionNames(strategy) ==
    CASE strategy = "scalping" -> {"rsi", "movingAverages", "bollingerBands", "macd", "volume", "cvd"}
      [] strategy = "intraday" -> {"bollingerBands", "macd", "rsi", "movingAverages", "volume", "cvd"}
      [] strategy = "pump" -> {"volume", "rsi", "movingAverages", "macd", "cvd", "bollinger"}

\* C18: what a strategy returns is a function of the price and the snapshot
\* it was given; allConditionsMet is true exactly when every entry of the
\* conditions map is true; the signal is LONG exactly when allConditionsMet
\* and WAIT otherwise; the full map of six conditions is returned either way.
C18_StrategyPure ==
    \A s \in Symbols, st \in StrategyNames :
        LET v == verdict[s][st] IN
        v # NoVerdict =>
            /\ v = Evaluate(st, indicatorValues[s].price, indicatorValues[s])
            /\ DOMAIN v.conditions = ConditionNames(st)
            /\ v.allConditionsMet <=> (\A c \in ConditionNames(st) : v.conditions[c])
            /\ v.signal = "LONG" <=> v.allConditionsMet
            /\ v.signal = "WAIT" <=> ~v.allConditionsMet

C18_Witness ==
    /\ verdict["BTCUSDT"]["pump"] # NoVerdict
    /\ verdict["BTCUSDT"]["pump"].signal = "LONG"
    /\ verdict["BTCUSDT"]["intraday"] # NoVerdict
    /\ verdict["BTCUSDT"]["intraday"].signal = "WAIT"
    /\ \E c \in ConditionNames("intraday") : verdict["BTCUSDT"]["intraday"].conditions[c]
    /\ verdict["BTCUSDT"]["scalping"] # NoVerdict

\* the take-profit and stop-loss offsets of each strategy
Offsets(strategy, r) ==
    CASE strategy = "scalping" ->
             r.takeProfit * 200 = r.entryPrice * 201 /\ r.stopLoss * 400 = r.entryPrice * 399
      [] strategy = "intraday" ->
             r.takeProfit * 50 = r.entryPrice * 51 /\ r.stopLoss * 100 = r.entryPrice * 99
      [] strategy = "pump" ->
             r.takeProfit * 100 = r.entryPrice * 103 /\ r.stopLoss * 100 = r.entryPrice * 99

\* every signal written or being written
StoredSignals == idbSignals \cup idbInflight \cup LsRecords(lsSignals)

\* C19: every strategy returns the current price as entryPrice, with
\* take-profit / stop-loss at +0.5% / -0.25% (scalping), +2% / -1%
\* (intraday), +3% / -1% (pump), so that stopLoss < entryPrice < takeProfit
\* for a positive price; every signal a strategy has saved carries those
\* values.
C19_Levels ==
    /\ \A s \in Symbols, st \in StrategyNames :
          LET v == verdict[s][st] IN
          v # NoVerdict =>
              /\ v.entryPrice = indicatorValues[s].price
              /\ Offsets(st, v)
              /\ v.entryPrice > 0 => (v.stopLoss < v.entryPrice /\ v.entryPrice < v.takeProfit)
    /\ \A r \in StoredSignals :
          /\ r.entryPrice = indicatorValues[r.symbol].price
          /\ Offsets(r.strategy, r)
          /\ r.stopLoss < r.entryPrice /\ r.entryPrice < r.takeProfit

C19_Witness ==
    /\ \E r \in idbSignals : r.strategy = "scalping" /\ r.entryPrice > 0
    /\ \E i \in DOMAIN lsSignals : lsSignals[i].strategy = "intraday"
    /\ verdict["BTCUSDT"]["pump"] # NoVerdict

\* the CVD series after the first n ticks of a feed, replayed from an empty
\* state
RECURSIVE ReplayPrices(_, _)
ReplayPrices(tr, n) ==
    IF n = 0 THEN <<>> ELSE PushCapped(ReplayPrices(tr, n - 1), PriceAt(tr, n))

RECURSIVE ReplayCvd(_, _)
ReplayCvd(tr, n) ==
    IF n = 0 THEN <<>>
    ELSE updateCVD(ReplayPrices(tr, n), ReplayCvd(tr, n - 1), VolumeAt(tr, n))

\* C20: replaying the tick sequence of an instrument from an empty state
\* gives the CVD series the instrument has, and the cvd of the snapshot handed
\* to the strategies is determined by the tick sequence, in process and on
\* the worker path, where computing the same message again gives the same cvd.
C20_CvdDeterministic ==
    \A s \in Symbols :
        /\ cvdHistory[s] = ReplayCvd(trend, updates[s])
        /\ indicatorValues[s] # NoValues =>
              indicatorValues[s].cvd = LastOr0(ReplayCvd(trend, updates[s]))
        /\ workerIndicators[s] # NoValues =>
              workerIndicators[s].cvd = replayIndicators[s].cvd

\* C21: the first tick of an instrument records CVD 0; every later tick
\* appends the previous CVD plus volumeDelta, which is 0 when the price is
\* unchanged, between volume and 3 x volume when the price rose and between
\* -3 x volume and -volume when it fell; so with positive volume the CVD goes
\* strictly up on an up-tick, strictly down on a down-tick and stays on a
\* flat tick.
C21_CvdRule ==
    [][ \A s \in Symbols : updates'[s] # updates[s] =>
          LET cvd == LastOr0(cvdHistory'[s])
              volume == LastOr0(volumeHistory'[s])
              price == LastOr0(priceHistory'[s])
          IN IF updates[s] = 0
             THEN cvdHistory'[s] = <<0>>
             ELSE LET lastCVD == LastOr0(cvdHistory[s])
                      previousPrice == LastOr0(priceHistory[s])
                  IN /\ Len(cvdHistory'[s]) = Min(Len(cvdHistory[s]) + 1, maxHistoryLength)
                     /\ price = previousPrice => cvd = lastCVD
                     /\ price > previousPrice =>
                           /\ cvd - lastCVD >= volume * 1000
                           /\ cvd - lastCVD <= volume * 3000
                           /\ volume > 0 => cvd > lastCVD
                     /\ price < previousPrice =>
                           /\ lastCVD - cvd >= volume * 1000
                           /\ lastCVD - cvd <= volume * 3000
                           /\ volume > 0 => cvd < lastCVD
      ]_vars

C21_Witness ==
    /\ trend = "swing"
    /\ Len(cvdHistory["BTCUSDT"]) = 3
    /\ cvdHistory["BTCUSDT"][1] = 0
    /\ cvdHistory["BTCUSDT"][2] = 0 - 3000 * volumeHistory["BTCUSDT"][2]
    /\ cvdHistory["BTCUSDT"][3] = cvdHistory["BTCUSDT"][2] + 3000 * volumeHistory["BTCUSDT"][3]
    /\ volumeHistory["BTCUSDT"][3] > 0

\* no price of the trailing 14 deltas of the series is below the one before
NoLosingDelta(prices) ==
    \A i \in (Len(prices) - 13)..Len(prices) : prices[i] >= prices[i - 1]

\* C22: for an instrument with fewer than 15 buffered prices, one with none
\* included, calculateRSI returns exactly 50; with 15 or more prices and no
\* losing delta among the trailing 14 it returns 100; the snapshot carries
\* that value.
C22_RsiDefault ==
    \A s \in Symbols :
        LET prices == priceHistory[s] IN
        /\ Len(prices) < 15 => calculateRSI(prices, 14) = 50000
        /\ (Len(prices) >= 15 /\ NoLosingDelta(prices)) => calculateRSI(prices, 14) = 100000
        /\ indicatorValues[s] # NoValues => indicatorValues[s].rsi = calculateRSI(prices, 14)

C22_Witness ==
    /\ Len(priceHistory["BTCUSDT"]) = 15
    /\ NoLosingDelta(priceHistory["BTCUSDT"])
    /\ indicatorValues["BTCUSDT"].rsi = 100000
    /\ priceHistory["ETHUSDT"] = <<>>
    /\ calculateRSI(priceHistory["ETHUSDT"], 14) = 50000

\* C23: with fewer than 26 buffered prices the line, the signal and the
\* histogram of the MACD are 0; otherwise the line is EMA(12) - EMA(26), the
\* signal is 0.8 of the line (rounded down to the thousandth) and the
\* histogram is line - signal; in every snapshot line > signal holds exactly
\* when line > 0.
C23_Macd ==
    \A s \in Symbols :
        indicatorValues[s] # NoValues =>
            LET m == indicatorValues[s].macd
                prices == priceHistory[s]
            IN /\ Len(prices) < 26 => (m.line = 0 /\ m.signal = 0 /\ m.macd = 0)
               /\ Len(prices) >= 26 =>
                     /\ m.line = calculateEMA(prices, 12) - calculateEMA(prices, 26)
                     /\ 10 * m.signal <= 8 * m.line
                     /\ 8 * m.line < 10 * m.signal + 10
                     /\ m.macd = m.line - m.signal
               /\ m.line > m.signal <=> m.line > 0

C23_Witness ==
    /\ Len(priceHistory["BTCUSDT"]) = 26
    /\ indicatorValues["BTCUSDT"].macd.line > 0
    /\ indicatorValues["BTCUSDT"].macd.signal > 0
    /\ indicatorValues["BTCUSDT"].macd.macd > 0
    /\ indicatorValues["ETHUSDT"] # NoValues
    /\ indicatorValues["ETHUSDT"].macd.line = 0

\* C24: while an instrument has fewer than 26 buffered prices, line > signal
\* is false in its snapshot; every strategy that renders returns
\* allConditionsMet false and WAIT, with its MACD condition false, and saves
\* nothing; no signal of that instrument is stored or being written.
C24_ShortHistoryWaits ==
    /\ [](\A s \in Symbols :
            (Len(priceHistory[s]) < 26 /\ indicatorValues[s] # NoValues) =>
                /\ ~(indicatorValues[s].macd.line > indicatorValues[s].macd.signal)
                /\ \A r \in StoredSignals \cup exportInflight : r.symbol # s)
    /\ [][ \A s \in Symbols, st \in StrategyNames :
             (verdict'[s][st] # verdict[s][st] /\ Len(priceHistory[s]) < 26) =>
                 /\ ~verdict'[s][st].allConditionsMet
                 /\ verdict'[s][st].signal = "WAIT"
                 /\ ~verdict'[s][st].conditions.macd
                 /\ UNCHANGED <<idbSignals, idbInflight, lsSignals, exportInflight,
                                pendingSignals, timers>>
         ]_vars

C24_Witness ==
    /\ trend = "rally"
    /\ Len(priceHistory["BTCUSDT"]) = 20
    /\ Rendered("BTCUSDT", "pump")
    /\ verdict["BTCUSDT"]["pump"].conditions =
           [volume |-> TRUE, rsi |-> TRUE, movingAverages |-> TRUE,
            macd |-> FALSE, cvd |-> TRUE, bollinger |-> TRUE]
    /\ verdict["BTCUSDT"]["pump"].signal = "WAIT"
    /\ Rendered("BTCUSDT", "scalping")
    /\ Rendered("BTCUSDT", "intraday")
    /\ StoredSignals = {}

\* the number of callbacks invoked so far
Invocations == Len(applied["BTCUSDT"]) + Len(applied["ETHUSDT"])

\* C25: a registered callback is invoked at most once; a step invokes at
\* most one callback, the one registered for its instrument, which is then no
\* longer registered; a response for an instrument with no callback
\* registered changes nothing but the worker's queue; once the pool is
\* cleaned up no callback is invoked and calculateIndicators registers and
\* posts nothing.
C25_CallbackOnce ==
    /\ [](\A s \in Symbols : \A i, j \in 1..Len(applied[s]) :
             applied[s][i].callback = applied[s][j].callback => i = j)
    /\ [](Len(workers) = 0 => \A s \in Symbols : pendingTasks[s] = NoCallback)
    /\ [][ /\ Invocations' \in {Invocations, Invocations + 1}
           /\ \A s \in Symbols :
                 /\ applied'[s] # applied[s] =>
                       /\ pendingTasks[s] # NoCallback
                       /\ Len(applied'[s]) = Len(applied[s]) + 1
                       /\ SubSeq(applied'[s], 1, Len(applied[s])) = applied[s]
                       /\ applied'[s][Len(applied'[s])].callback = pendingTasks[s]
                       /\ pendingTasks'[s] = NoCallback
                 /\ (applied'[s] = applied[s] /\ ticks' = ticks /\ workers' = workers) =>
                       (pendingTasks'[s] = pendingTasks[s] /\ isCalculating'[s] = isCalculating[s])
           /\ Len(workers) = 0 =>
                 UNCHANGED <<applied, pendingTasks, inbox, calls, workerIndex>>
         ]_vars

C25_Witness ==
    /\ Len(workers) > 0
    /\ calls = 3
    /\ ticks["BTCUSDT"] = 3
    /\ applied["BTCUSDT"] = <<[callback |-> 3, data |-> 1]>>
    /\ pendingTasks["BTCUSDT"] = NoCallback
    /\ \A w \in 1..maxWorkers : inbox[w] = <<>>

\* the live timers of a key
TimersOf(key, ts) == { t \in ts : t.key = key }

\* C26: a shouldProcessSignal call for a key, accepted or rejected, and the
\* run of the timer of a key leave the pending record and the timer of every
\* other key as they were; whether a call is accepted is decided by the
\* pending record of its own key and the timestamp of the request alone.
C26_KeysIndependent ==
    [][ (event'.op \in {"shouldProcessSignal", "timer"}) =>
            /\ \A k \in Keys : k # event'.key =>
                  /\ pendingSignals'[k] = pendingSignals[k]
                  /\ TimersOf(k, timers') = TimersOf(k, timers)
                  /\ lastAccepted'[k] = lastAccepted[k]
            /\ event'.op = "shouldProcessSignal" =>
                  (event'.accepted <=>
                      ~(/\ pendingSignals[event'.key] # NoPending
                        /\ event'.timestamp - pendingSignals[event'.key].timestamp
                              < duplicateWindow))
      ]_vars

C26_Witness ==
    /\ event.op = "shouldProcessSignal"
    /\ event.accepted
    /\ \E k \in Keys :
          /\ k # event.key
          /\ IsPending(k)
          /\ now - pendingSignals[k].timestamp < duplicateWindow
          /\ pendingSignals[k].timestamp < now
          /\ TimersOf(k, timers) # {}

\* ------------------------------------------------- the signal lifecycle
MaxLifeTime == 2
MaxLifecycle == 2
MaxLifeSaves == 2

EntryPrices == {100000}
ExecutionPrices == {101000}

\* a TradingSignal as the strategies build it, with its entry price
PricedSignal(symbol, strategy, signal, timestamp, entryPrice) ==
    [id |-> generateSignalId(symbol, strategy, timestamp), symbol |-> symbol,
     strategy |-> strategy, signal |-> signal, timestamp |-> timestamp,
     entryPrice |-> entryPrice, active |-> TRUE, executed |-> FALSE]

SavePriced(symbol, strategy, signal, entryPrice) ==
    /\ nextTimerId <= MaxLifeSaves
    /\ saveSignal(PricedSignal(symbol, strategy, signal, now, entryPrice))
    /\ UNCHANGED callerVars

NoSignal == [id |-> <<>>]

\* an id no signal was ever saved under
UnknownId == generateSignalId("BTCUSDT", "scalping", -1)

\* signals.find(s => s.id === signalId) on what getSignals() returned
FindSignal(store, signalId) ==
    IF \E r \in store : r.id = signalId
    THEN CHOOSE r \in store : r.id = signalId
    ELSE NoSignal

\* history.signals.find(s => s.id === signalId): the first match
FindIndex(signals, signalId) ==
    IF \E i \in DOMAIN signals : signals[i].id = signalId
    THEN CHOOSE i \in DOMAIN signals :
            /\ signals[i].id = signalId
            /\ \A j \in DOMAIN signals : j < i => signals[j].id # signalId
    ELSE 0

\* signal.active = false
Deactivated(signal) == [signal EXCEPT !.active = FALSE]

\* executed = true, executedAt = Date.now(), active = false, pnl of a LONG
Executed(signal, executionPrice, at) ==
    [k \in DOMAIN signal \cup {"executedAt", "pnl"} |->
        CASE k = "executed" -> TRUE
          [] k = "executedAt" -> at
          [] k = "active" -> FALSE
          [] k = "pnl" -> executionPrice - signal.entryPrice
          [] OTHER -> signal[k]]

Changed(op, signal, executionPrice, at) ==
    IF op = "deactivateSignal" THEN Deactivated(signal)
    ELSE Executed(signal, executionPrice, at)

WriteIds == {r.id : r \in idbInflight} \cup {lifecycleWrites[i].id : i \in DOMAIN lifecycleWrites}

\* deactivateSignal / markSignalExecuted up to the first await: on IndexedDB
\* the read transaction of getSignals() is created, and it sees the store as
\* it is now (no write of this id is queued before it); on localStorage the
\* whole read-modify-write runs, or setItem throws
Lifecycle(op, signalId, executionPrice) ==
    /\ IF isIndexedDBReady
       THEN /\ Cardinality(lifecycleReads) + Len(lifecycleWrites) < MaxLifecycle
            /\ signalId \notin WriteIds
            /\ lifecycleReads' = lifecycleReads \cup
                   {[op |-> op, id |-> signalId, executionPrice |-> executionPrice,
                     found |-> FindSignal(idbSignals, signalId)]}
            /\ event' = Ev(op, signalId, -1, FALSE, FALSE, -1, -1, "reading")
            /\ UNCHANGED <<lsSignals, lifecycleWrites>>
       ELSE LET i == FindIndex(lsSignals, signalId) IN
            /\ \/ /\ lsSignals' = IF i = 0 THEN lsSignals
                                  ELSE [lsSignals EXCEPT
                                           ![i] = Changed(op, lsSignals[i], executionPrice, now)]
                  /\ event' = Ev(op, signalId, -1, FALSE, FALSE, -1, -1, "resolved")
               \/ /\ i # 0
                  /\ lsSignals' = lsSignals
                  /\ event' = Ev(op, signalId, -1, FALSE, FALSE, -1, -1, "rejected")
            /\ UNCHANGED lifecycleVars
    /\ UNCHANGED <<now, memoryVars, debouncerVars, isIndexedDBReady, initState, idbSignals, idbInflight,
                   sheetsConfig, exportInflight, managerVars, callerVars>>

DeactivateSignal(signalId) == Lifecycle("deactivateSignal", signalId, 0)

MarkSignalExecuted(signalId, executionPrice) ==
    Lifecycle("markSignalExecuted", signalId, executionPrice)

\* getSignals() resolves: find the signal in what was read, change the copy
\* and hand it to updateSignal, or resolve when the id is not there
LifecycleFound(call) ==
    /\ call \in lifecycleReads
    /\ lifecycleReads' = lifecycleReads \ {call}
    /\ IF call.found = NoSignal
       THEN /\ event' = Ev(call.op, call.id, -1, FALSE, FALSE, -1, -1, "resolved")
            /\ UNCHANGED lifecycleWrites
       ELSE /\ lifecycleWrites' =
                   Append(lifecycleWrites, Changed(call.op, call.found, call.executionPrice, now))
            /\ event' = Ev(call.op, call.id, -1, FALSE, FALSE, -1, -1, "writing")
    /\ UNCHANGED <<now, memoryVars, debouncerVars, isIndexedDBReady, initState, idbSignals, idbInflight,
                   lsSignals, sheetsConfig, exportInflight, managerVars, callerVars>>

\* the put of updateSignal succeeds; readwrite transactions on the store run
\* in the order they were created
UpdateSignalSuccess ==
    /\ lifecycleWrites # <<>>
    /\ idbSignals' = IdbPut(idbSignals, Head(lifecycleWrites))
    /\ lifecycleWrites' = Tail(lifecycleWrites)
    /\ event' = Ev("updateSignal", Head(lifecycleWrites).id, -1, FALSE, FALSE, -1, -1,
                   "resolved")
    /\ UNCHANGED <<now, memoryVars, debouncerVars, isIndexedDBReady, initState, idbInflight, lsSignals,
                   sheetsConfig, exportInflight, lifecycleReads, managerVars, callerVars>>

\* the put of updateSignal fails: the caller rethrows
UpdateSignalError ==
    /\ lifecycleWrites # <<>>
    /\ lifecycleWrites' = Tail(lifecycleWrites)
    /\ event' = Ev("updateSignal", Head(lifecycleWrites).id, -1, FALSE, FALSE, -1, -1,
                   "rejected")
    /\ UNCHANGED <<now, memoryVars, debouncerVars, isIndexedDBReady, initState, idbSignals, idbInflight,
                   lsSignals, sheetsConfig, exportInflight, lifecycleReads, managerVars,
                   callerVars>>

\* getActiveSignals(): the active index filtered by !executed, or the
\* localStorage list filtered by active && !executed
getActiveSignals ==
    IF isIndexedDBReady
    THEN {r \in {a \in idbSignals : a.active} : ~r.executed}
    ELSE {r \in LsRecords(lsSignals) : r.active /\ ~r.executed}

StoredIds == {r.id : r \in idbSignals \cup LsRecords(lsSignals)}

TickLife == TickTo(MaxLifeTime)

\* signals of one instrument saved, deactivated and marked executed while
\* the application runs
LifecycleNext ==
    \/ \E st \in Strategies, sg \in SignalTypes, p \in EntryPrices :
          SavePriced("BTCUSDT", st, sg, p)
    \/ \E t \in timers : TimerFire(t)
    \/ \E sig \in idbInflight : IdbPutSuccess(sig)
    \/ \E sig \in idbInflight : IdbPutError(sig)
    \/ InitializeIndexedDBOk
    \/ InitializeIndexedDBFail
    \/ TickLife
    \/ \E id \in StoredIds \cup {UnknownId} : DeactivateSignal(id)
    \/ \E id \in StoredIds \cup {UnknownId}, p \in ExecutionPrices : MarkSignalExecuted(id, p)
    \/ \E call \in lifecycleReads : LifecycleFound(call)
    \/ UpdateSignalSuccess
    \/ UpdateSignalError

LifecycleSpec == Init /\ [][LifecycleNext]_vars

\* the same signal before and after a step: active only falls, executed only
\* rises
Monotonic(before, after) ==
    \A r \in before, q \in after :
        q.id = r.id => /\ q.active => r.active
                       /\ r.executed => q.executed

\* C27: every signal enters the store active and not executed; in either
\* store active only changes from true to false and executed only from false
\* to true; an executed signal is never active and is never returned by
\* getActiveSignals; deactivateSignal and markSignalExecuted with an id that
\* is not stored change neither store and queue no write.
C27_LifecycleMonotonic ==
    /\ [](\A r \in idbSignals \cup LsRecords(lsSignals) : r.executed => ~r.active)
    /\ [](\A r \in getActiveSignals : r.active /\ ~r.executed)
    /\ [][ /\ Monotonic(idbSignals, idbSignals')
           /\ Monotonic(LsRecords(lsSignals), LsRecords(lsSignals'))
           /\ \A q \in idbSignals' \cup LsRecords(lsSignals') :
                 q.id \notin StoredIds => q.active /\ ~q.executed
           /\ (/\ event'.op \in {"deactivateSignal", "markSignalExecuted"}
               /\ event'.key \notin StoredIds)
                 => /\ UNCHANGED <<idbSignals, lsSignals, lifecycleWrites>>
                    /\ \A call \in lifecycleReads' \ lifecycleReads : call.found = NoSignal
         ]_vars

\* the session in which IndexedDB never comes up: every operation takes the
\* localStorage branch
FallbackNext ==
    \/ \E s \in Symbols, st \in Strategies, sg \in SignalTypes, p \in EntryPrices :
          SavePriced(s, st, sg, p)
    \/ \E t \in timers : TimerFire(t)
    \/ InitializeIndexedDBFail
    \/ TickLife
    \/ \E id \in StoredIds \cup {UnknownId} : DeactivateSignal(id)
    \/ \E id \in StoredIds \cup {UnknownId}, p \in ExecutionPrices : MarkSignalExecuted(id, p)

FallbackSpec == Init /\ [][FallbackNext]_vars

\* C28: on the localStorage backend the list holds at most one active signal
\* per (symbol, strategy); a save that reaches the list puts its signal at the
\* head, and no other step changes which signal is at the head.
C28_FallbackList ==
    /\ [](~isIndexedDBReady =>
             \A i, j \in DOMAIN lsSignals :
                 (/\ i # j
                  /\ lsSignals[i].symbol = lsSignals[j].symbol
                  /\ lsSignals[i].strategy = lsSignals[j].strategy)
                     => ~(lsSignals[i].active /\ lsSignals[j].active))
    /\ [][ ~isIndexedDBReady =>
             IF event'.op = "saveSignal" /\ event'.outcome \in {"resolved", "exporting"}
             THEN /\ lsSignals' # <<>>
                  /\ lsSignals'[1].id =
                        generateSignalId(event'.key[1], event'.key[2], event'.timestamp)
                  /\ lsSignals'[1].active
             ELSE /\ Len(lsSignals') = Len(lsSignals)
                  /\ lsSignals # <<>> => lsSignals'[1].id = lsSignals[1].id
         ]_vars

C28_Witness ==
    /\ ~isIndexedDBReady
    /\ event.op = "saveSignal"
    /\ event.outcome = "resolved"
    /\ Len(lsSignals) = 2
    /\ lsSignals[1].symbol = lsSignals[2].symbol
    /\ lsSignals[1].timestamp > lsSignals[2].timestamp
    /\ lsSignals[1].active
    /\ lsSignals[2].executed

\* the signed, weighted volume a tick adds to the CVD
TickDelta(previousPrice, currentPrice, volume) ==
    IF currentPrice > previousPrice THEN volume * volumeWeight(previousPrice, currentPrice)
    ELSE IF currentPrice < previousPrice
    THEN 0 - volume * volumeWeight(previousPrice, currentPrice)
    ELSE 0

\* C29: for every instrument the price, volume, open-interest and CVD series
\* have one length, at most 100, and the CVD value at an index comes from the
\* tick whose price and volume stand at that index: it is the value before it
\* plus the weighted volume of that tick.
C29_SeriesAligned ==
    \A s \in Symbols :
        /\ Len(volumeHistory[s]) = Len(priceHistory[s])
        /\ Len(openInterestHistory[s]) = Len(priceHistory[s])
        /\ Len(cvdHistory[s]) = Len(priceHistory[s])
        /\ Len(priceHistory[s]) <= maxHistoryLength
        /\ \A i \in 2..Len(priceHistory[s]) :
              cvdHistory[s][i] = cvdHistory[s][i - 1]
                  + TickDelta(priceHistory[s][i - 1], priceHistory[s][i], volumeHistory[s][i])

C29_Witness ==
    /\ trend = "swing"
    /\ updates["BTCUSDT"] = maxHistoryLength + 2
    /\ Len(priceHistory["BTCUSDT"]) = maxHistoryLength
    /\ Len(cvdHistory["BTCUSDT"]) = maxHistoryLength
    /\ cvdHistory["BTCUSDT"][maxHistoryLength] # cvdHistory["BTCUSDT"][maxHistoryLength - 1]
    /\ cvdHistory["BTCUSDT"][1] # 0

\* ----------------------------------------- MemoryManager's subscriptions
MaxMemoryTime == 360
MaxRegistrations == 3
MaxStarts == 2

maxAge == 300
cleanupPeriod == 60

MemoryEvent(op, id) == Ev(op, id, -1, FALSE, FALSE, -1, -1, "none")

\* App's effect on mount: start() sets the interval
Start ==
    /\ cleanupInterval = 0
    /\ starts < MaxStarts
    /\ starts' = starts + 1
    /\ cleanupInterval' = starts + 1
    /\ event' = Plain("start")
    /\ UNCHANGED <<now, subscriptions, invoked, debouncerVars, persistVars, managerVars,
                   callerVars>>

\* addSubscription(id, cleanup) with a cleanup function of its own
AddSubscription(id) ==
    /\ Len(invoked) < MaxRegistrations
    /\ invoked' = Append(CallAll({id}), 0)
    /\ subscriptions' = [subscriptions EXCEPT
                            ![id] = [cleanup |-> Len(invoked) + 1, timestamp |-> now]]
    /\ event' = MemoryEvent("addSubscription", id)
    /\ UNCHANGED <<now, cleanupInterval, starts, debouncerVars, persistVars, managerVars,
                   callerVars>>

\* variant: the subscription stays in the map after its cleanup ran
RemoveSubscriptionKeeps(id) ==
    /\ invoked' = CallAll({id})
    /\ subscriptions' = subscriptions
    /\ event' = MemoryEvent("removeSubscription", id)
    /\ UNCHANGED <<now, cleanupInterval, starts, debouncerVars, persistVars, managerVars,
                   callerVars>>

\* removeSubscription(id)
RemoveSubscription(id) ==
    /\ invoked' = CallAll({id})
    /\ subscriptions' = [subscriptions EXCEPT ![id] = NoSubscription]
    /\ event' = MemoryEvent("removeSubscription", id)
    /\ UNCHANGED <<now, cleanupInterval, starts, debouncerVars, persistVars, managerVars,
                   callerVars>>

\* the subscriptions performCleanup finds older than maxAge
Aged ==
    { id \in SubscriptionIds :
        /\ subscriptions[id] # NoSubscription
        /\ now - subscriptions[id].timestamp > maxAge }

\* performCleanup, run by the interval or on visibilitychange once start()
\* has installed them
PerformCleanup ==
    /\ starts > 0
    /\ invoked' = CallAll(Aged)
    /\ subscriptions' = [id \in SubscriptionIds |->
                            IF id \in Aged THEN NoSubscription ELSE subscriptions[id]]
    /\ event' = Plain("performCleanup")
    /\ UNCHANGED <<now, cleanupInterval, starts, debouncerVars, persistVars, managerVars,
                   callerVars>>

\* a period of the cleanup interval passes
MemoryTick ==
    /\ now + cleanupPeriod <= MaxMemoryTime
    /\ now' = now + cleanupPeriod
    /\ event' = Plain("tick")
    /\ UNCHANGED <<memoryVars, debouncerVars, persistVars, managerVars, callerVars>>

\* subscriptions registered, replaced, removed and aged out while signals of
\* one instrument are saved, and the full cleanup
MemoryNext ==
    \/ Start
    \/ \E id \in SubscriptionIds : AddSubscription(id)
    \/ \E id \in SubscriptionIds : RemoveSubscription(id)
    \/ PerformCleanup
    \/ Cleanup
    \/ MemoryTick
    \/ \E st \in Strategies, sg \in SignalTypes : SaveSignal("BTCUSDT", st, sg)
    \/ \E t \in timers : TimerFire(t)

MemorySpec == Init /\ [][MemoryNext]_vars

\* the cleanup functions the map holds
Registered(subs) == { subs[id].cleanup : id \in SubscriptionIds } \ {0}

\* C30: no registered cleanup function is ever called twice; a step calls a
\* function exactly when the function leaves the map (its id is replaced or
\* removed, it has aged out, or the full cleanup runs), and calls it once;
\* performCleanup drops exactly the subscriptions older than maxAge; after
\* cleanup() the map is empty, the interval handle is null, the worker manager
\* has no worker and no pending task and the debouncer no pending signal.
C30_CleanupOnce ==
    /\ [](\A r \in DOMAIN invoked : invoked[r] <= 1)
    /\ [][ /\ \A r \in DOMAIN invoked :
                 /\ invoked'[r] \in {invoked[r], invoked[r] + 1}
                 /\ invoked'[r] = invoked[r] + 1
                       <=> (r \in Registered(subscriptions) /\ r \notin Registered(subscriptions'))
           /\ event'.op = "performCleanup" =>
                 \A id \in SubscriptionIds :
                     subscriptions'[id] = IF id \in Aged THEN NoSubscription
                                          ELSE subscriptions[id]
           /\ event'.op = "cleanup" =>
                 /\ Registered(subscriptions') = {}
                 /\ cleanupInterval' = 0
                 /\ workers' = <<>>
                 /\ \A s \in Symbols : pendingTasks'[s] = NoCallback
                 /\ \A k \in Keys : pendingSignals'[k] = NoPending
         ]_vars

C30_Witness ==
    /\ event.op = "cleanup"
    /\ starts = 1
    /\ Len(invoked) = 3
    /\ \A r \in DOMAIN invoked : invoked[r] = 1
    /\ now = MaxMemoryTime
    /\ lsSignals # <<>>
    /\ workers = <<>>
    /\ cleanupInterval = 0

====
